---- MODULE Spec2Model ----
(***************************************************************************)
(* Little-league lineup tool: the defensive lineup generator, the league   *)
(* rule validator, the roster operations, the saved initial state and the  *)
(* URL state of src/src/lib/baseball-lineup-logic.svelte.ts, with the      *)
(* codec of src/src/lib/state-serialization.ts.                            *)
(*                                                                         *)
(* Innings are numbered 0..5 as in the source; row r of a lineup is a      *)
(* sequence, so the entry of inning i is r[i + 1].  A JavaScript object is *)
(* a function whose DOMAIN is its key set; {} is the empty function <<>>.  *)
(***************************************************************************)
EXTENDS Integers, Sequences, FiniteSets, TLC

\* ------------------------------------------------------------------ constants

POSITIONS ==
  << "Pitcher", "Catcher", "1st Base", "2nd Base", "3rd Base", "Shortstop",
     "Left Field", "Center Field", "Right Field" >>

INNING_COUNT == 6

\* Number of loop iterations of generateDefensiveLineups (1000 in the source,
\* scaled down: the loop body does not read the value).
maxAttempts == 2

\* How many handlers (generateDefensiveLineups, removePlayer,
\* togglePlayerAttendance) are invoked in one behaviour.
MaxCalls == 3

\* ------------------------------------------------------------------ arrays

Range(s) == { s[i] : i \in DOMAIN s }

includes(s, x) == \E i \in DOMAIN s : s[i] = x

\* Array.prototype.indexOf, 1-based; 0 stands for -1.
indexOf(s, x) ==
  IF includes(s, x)
  THEN CHOOSE i \in DOMAIN s : s[i] = x /\ \A j \in 1..(i - 1) : s[j] # x
  ELSE 0

\* s.splice(i, 1) for a 1-based index i.
spliceOne(s, i) == SubSeq(s, 1, i - 1) \o SubSeq(s, i + 1, Len(s))

Min2(a, b) == IF a < b THEN a ELSE b
Max2(a, b) == IF a > b THEN a ELSE b

SetMax(S) == CHOOSE x \in S : \A y \in S : y <= x
SetMin(S) == CHOOSE x \in S : \A y \in S : x <= y

\* Object.assign(target, source)
ObjectAssign(target, source) ==
  [ k \in (DOMAIN target) \cup (DOMAIN source) |->
      IF k \in DOMAIN source THEN source[k] ELSE target[k] ]

\* delete obj[key]
DeleteKey(obj, key) == [ k \in (DOMAIN obj) \ {key} |-> obj[k] ]

\* obj[key].push(v), creating the row when the key is missing
PushRow(obj, key, v) ==
  [ k \in (DOMAIN obj) \cup {key} |->
      IF k = key
      THEN (IF key \in DOMAIN obj THEN Append(obj[key], v) ELSE << v >>)
      ELSE obj[k] ]

\* `Sitting ${index + 1}`
SittingKey(n) == "Sitting " \o ToString(n)

PositionSet == Range(POSITIONS)

\* ------------------------------------------------------------------ utilities

getInfieldPositions ==
  << "Pitcher", "Catcher", "1st Base", "2nd Base", "3rd Base", "Shortstop" >>

isInfieldPosition(position) == includes(getInfieldPositions, position)

\* playerAttendance[player] !== false
isPlayerAttending(att, player) ==
  ~(player \in DOMAIN att /\ att[player] = FALSE)

getAttendingPlayers(r, att) ==
  SelectSeq(r, LAMBDA player : isPlayerAttending(att, player))

\* playerCapabilities[player]?.includes(position) || false
canPlayerPlayPosition(caps, player, position) ==
  player \in DOMAIN caps /\ includes(caps[player], position)

allPlayersHaveCapabilities(r, caps, att) ==
  \A player \in Range(getAttendingPlayers(r, att)) :
    player \in DOMAIN caps /\ Len(caps[player]) > 0

\* ------------------------------------------------------------------ state serialization

\* Variant that keeps the blanks around a name.
trim_keepsBlanks(s) == s

\* String.prototype.trim for names padded with blanks
RECURSIVE trim(_)
trim(s) ==
  IF Len(s) = 0 THEN s
  ELSE IF SubSeq(s, 1, 1) = " " THEN trim(SubSeq(s, 2, Len(s)))
  ELSE IF SubSeq(s, Len(s), Len(s)) = " " THEN trim(SubSeq(s, 1, Len(s) - 1))
  ELSE s

SERIALIZATION_VERSION == 1

\* The initial value of gameMetadata.
emptyGameMetadata ==
  [ gameDate |-> "", gameTime |-> "", homeTeam |-> "", awayTeam |-> "",
    isHomeTeam |-> TRUE, field |-> "" ]

\* The object exportStateToUrl builds from the module state.
stateObject(r, caps, g, order, att, meta) ==
  [ roster |-> r, playerCapabilities |-> caps, generatedLineups |-> g,
    battingOrder |-> order, playerAttendance |-> att, gameMetadata |-> meta ]

\* BaseballLineupStateSchema.parse: of the constraints of the schema, the one
\* a state object of this model can fail is roster.min(1).
schemaAccepts(data) == Len(data.roster) >= 1

\* The checksum of the compressed bytes, modelled without collisions: the
\* digest of a payload is the payload.
crc32(compressed) == [ of |-> compressed ]

\* A URL fragment `#v<version>=<data>&tab=<tab>~h=<checksum>` is the record
\* of its parts; wellFormed says whether the text matches the pattern
\* /^v(\d+)=(.+)~h=(.+)$/.  The bytes (CBOR, deflate, base64url) are
\* represented by the versioned object they encode.
encodeState(obj) ==
  LET compressed == [ v |-> SERIALIZATION_VERSION, data |-> obj ]
  IN [ wellFormed |-> TRUE, version |-> SERIALIZATION_VERSION,
       compressed |-> compressed, checksum |-> crc32(compressed), tab |-> "" ]

\* Variant that does not verify the checksum.
decodeState_noChecksum(fragment) ==
  IF ~fragment.wellFormed THEN [ ok |-> FALSE, data |-> fragment.compressed.data ]
  ELSE IF fragment.version # SERIALIZATION_VERSION
       THEN [ ok |-> FALSE, data |-> fragment.compressed.data ]
  ELSE IF fragment.compressed.v # SERIALIZATION_VERSION
       THEN [ ok |-> FALSE, data |-> fragment.compressed.data ]
  ELSE [ ok |-> TRUE, data |-> fragment.compressed.data ]

\* The result is [ok, data]: ok = FALSE stands for the Error decodeState throws.
decodeState(hash) ==
  IF ~hash.wellFormed THEN [ ok |-> FALSE, data |-> hash.compressed.data ]
  ELSE IF hash.version # SERIALIZATION_VERSION THEN [ ok |-> FALSE, data |-> hash.compressed.data ]
  ELSE IF hash.checksum # crc32(hash.compressed) THEN [ ok |-> FALSE, data |-> hash.compressed.data ]
  ELSE IF hash.compressed.v # SERIALIZATION_VERSION THEN [ ok |-> FALSE, data |-> hash.compressed.data ]
  ELSE [ ok |-> TRUE, data |-> hash.compressed.data ]

\* hash.replace(/&tab=[^~]+/, '')
withoutTab(hash) == [ hash EXCEPT !.tab = "" ]

\* No fragment: window.location.hash is ''.
noHash ==
  [ wellFormed |-> FALSE, version |-> 0,
    compressed |-> [ v |-> 0,
                     data |-> stateObject(<< >>, << >>, << >>, << >>, << >>, emptyGameMetadata) ],
    checksum |-> crc32([ v |-> 0,
                         data |-> stateObject(<< >>, << >>, << >>, << >>, << >>, emptyGameMetadata) ]),
    tab |-> "" ]

\* ------------------------------------------------------------------ shared arrays

\* saveInitialState and resetToInitialState copy the capability arrays and the
\* lineup rows by reference (Object.assign), so one array can be the value of
\* several keys.  A slot << kind, side, key >> names the place where an array
\* is stored: kind is "capabilities" or "lineups", side is "current" or
\* "initial".  The state keeps the groups of two or more slots that hold the
\* same array.
slot(kind, side, key) == << kind, side, key >>

slotsOf(kind, side, obj) == { slot(kind, side, key) : key \in DOMAIN obj }

sameArray(groups, s, t) == s = t \/ \E G \in groups : s \in G /\ t \in G

\* The slots that hold the array of slot s.
arrayOf(groups, s) == {s} \cup UNION { G \in groups : s \in G }

\* The groups among the slots in DOMAIN origin when slot s holds the array
\* that slot origin[s] held before.
regroup(groups, origin) ==
  { G \in { { t \in DOMAIN origin : sameArray(groups, origin[s], origin[t]) } :
             s \in DOMAIN origin } :
      Cardinality(G) >= 2 }

\* A slot that holds a new array.
fresh(s) == << s[1], "new " \o s[2], s[3] >>

\* The value of every key of obj whose slot holds the array of slot s becomes v.
writeArray(groups, obj, kind, side, s, v) ==
  [ key \in DOMAIN obj |->
      IF slot(kind, side, key) \in arrayOf(groups, s) THEN v ELSE obj[key] ]

\* ------------------------------------------------------------------ league rules

\* Variant without the limit of 3 innings per position.
canPlayerPlayPositionInInning_uncapped(caps, player, position, playerStats) ==
  IF ~canPlayerPlayPosition(caps, player, position) THEN FALSE
  ELSE IF position = "Pitcher" /\ playerStats[player].positionCounts["Catcher"] >= 4
       THEN FALSE
  ELSE IF position = "Catcher" /\ playerStats[player].positionCounts["Pitcher"] >= 2
       THEN FALSE
  ELSE TRUE

\* Variant without the pitcher-to-catcher rule.
canPlayerPlayPositionInInning_pitcherCatches(caps, player, position, playerStats) ==
  IF ~canPlayerPlayPosition(caps, player, position) THEN FALSE
  ELSE IF playerStats[player].positionCounts[position] >= 3 THEN FALSE
  ELSE IF position = "Pitcher" /\ playerStats[player].positionCounts["Catcher"] >= 4
       THEN FALSE
  ELSE TRUE

canPlayerPlayPositionInInning(caps, player, position, playerStats) ==
  IF ~canPlayerPlayPosition(caps, player, position) THEN FALSE
  ELSE IF playerStats[player].positionCounts[position] >= 3 THEN FALSE
  ELSE IF position = "Pitcher" /\ playerStats[player].positionCounts["Catcher"] >= 4
       THEN FALSE
  ELSE IF position = "Catcher" /\ playerStats[player].positionCounts["Pitcher"] >= 2
       THEN FALSE
  ELSE TRUE

\* Variant that takes the first inning in which the row shows the player.
lastInningPlayed_first(positionLineup, player) ==
  LET hits == { i \in DOMAIN positionLineup : positionLineup[i] = player }
  IN IF hits = {} THEN -1 ELSE SetMin(hits) - 1

\* The last inning (0-based) in which the row shows the player, -1 if none.
lastInningPlayed(positionLineup, player) ==
  LET hits == { i \in DOMAIN positionLineup : positionLineup[i] = player }
  IN IF hits = {} THEN -1 ELSE SetMax(hits) - 1

\* Variant without the consecutive-innings rule.
canPlayerPlayPositionInSpecificInning_anyInning(caps, player, position, inning, playerStats, lineups) ==
  canPlayerPlayPositionInInning(caps, player, position, playerStats)

canPlayerPlayPositionInSpecificInning(caps, player, position, inning, playerStats, lineups) ==
  IF ~canPlayerPlayPositionInInning(caps, player, position, playerStats) THEN FALSE
  ELSE IF position = "Pitcher" \/ position = "Catcher"
  THEN LET positionLineup == IF position \in DOMAIN lineups THEN lineups[position] ELSE << >>
           currentCount == playerStats[player].positionCounts[position]
           last == lastInningPlayed(positionLineup, player)
       IN IF currentCount = 0 THEN TRUE
          ELSE IF last # -1 /\ inning # last + 1 THEN FALSE
          ELSE TRUE
  ELSE TRUE

\* The stats record every attending player starts with.
emptyStats ==
  [ positionCounts |-> [ position \in PositionSet |-> 0 ],
    infieldInnings |-> 0,
    benchInnings |-> 0 ]

initPlayerStats(attending) == [ player \in Range(attending) |-> emptyStats ]

\* lineups[position]?.[inning], "" when undefined
cell(lineups, key, inning) ==
  IF key \in DOMAIN lineups /\ inning + 1 \in DOMAIN lineups[key]
  THEN lineups[key][inning + 1]
  ELSE ""

\* playerStats[player].positionCounts[position]++ and the infield counter
countPosition(stats, player, position) ==
  [ stats EXCEPT
      ![player].positionCounts[position] = @ + 1,
      ![player].infieldInnings = IF isInfieldPosition(position) THEN @ + 1 ELSE @ ]

\* ------------------------------------------------------------------ stats

\* calculatePlayerStats dereferences stats[player] for a name that passes
\* isPlayerAttending but has no stats entry (a name outside the roster):
\* the call throws a TypeError.
calculatePlayerStatsThrows(lineups, r, att) ==
  \E inning \in 0..(INNING_COUNT - 1) : \E k \in DOMAIN POSITIONS :
    LET player == cell(lineups, POSITIONS[k], inning)
    IN /\ player # ""
       /\ isPlayerAttending(att, player)
       /\ player \notin Range(getAttendingPlayers(r, att))

\* The object calculatePlayerStats returns when it does not throw, given by
\* what its loops count: for every attending player the innings in which each
\* position row shows the player, the sum of these over the infield
\* positions, and the innings in which no position row shows the player.
positionCount(lineups, player, position) ==
  Cardinality({ i \in 0..(INNING_COUNT - 1) : cell(lineups, position, i) = player })

RECURSIVE infieldCount(_, _, _)
infieldCount(lineups, player, k) ==
  IF k > Len(getInfieldPositions) THEN 0
  ELSE positionCount(lineups, player, getInfieldPositions[k])
         + infieldCount(lineups, player, k + 1)

benchCount(lineups, player) ==
  Cardinality({ i \in 0..(INNING_COUNT - 1) :
                  \A position \in PositionSet : cell(lineups, position, i) # player })

calculatePlayerStats(lineups, r, att) ==
  [ player \in Range(getAttendingPlayers(r, att)) |->
      [ positionCounts |-> [ position \in PositionSet |-> positionCount(lineups, player, position) ],
        infieldInnings |-> infieldCount(lineups, player, 1),
        benchInnings |-> benchCount(lineups, player) ] ]

\* ------------------------------------------------------------------ validation

\* The players of a row in order of first appearance, "" skipped.
RECURSIVE playersWhoPlayedPosition(_, _, _)
playersWhoPlayedPosition(positionLineup, i, acc) ==
  IF i > Len(positionLineup) THEN acc
  ELSE IF trim(positionLineup[i]) # "" /\ ~includes(acc, positionLineup[i])
       THEN playersWhoPlayedPosition(positionLineup, i + 1, Append(acc, positionLineup[i]))
       ELSE playersWhoPlayedPosition(positionLineup, i + 1, acc)

\* The innings (0-based, ascending) at which the row shows the player.
RECURSIVE inningsPlayed(_, _, _, _)
inningsPlayed(positionLineup, player, i, acc) ==
  IF i > Len(positionLineup) THEN acc
  ELSE inningsPlayed(positionLineup, player, i + 1,
         IF positionLineup[i] = player THEN Append(acc, i - 1) ELSE acc)

\* Variant that compares the first two innings only.
isConsecutive_firstPair(sortedInnings) ==
  \A i \in 2..Min2(2, Len(sortedInnings)) : sortedInnings[i] = sortedInnings[i - 1] + 1

isConsecutive(sortedInnings) ==
  \A i \in 2..Len(sortedInnings) : sortedInnings[i] = sortedInnings[i - 1] + 1

\* An error message is modelled by its kind and the values interpolated in it.
consecutiveError(player, position, sortedInnings) ==
  [ kind |-> "non-consecutive", player |-> player, position |-> position,
    innings |-> [ i \in DOMAIN sortedInnings |-> sortedInnings[i] + 1 ] ]

infieldError(player, n) ==
  [ kind |-> "infield", player |-> player, innings |-> n ]

benchError(maxBench, minBench) ==
  [ kind |-> "bench", max |-> maxBench, min |-> minBench ]

RECURSIVE consecutiveErrors(_, _, _, _, _)
consecutiveErrors(positionLineup, position, players, i, errors) ==
  IF i > Len(players) THEN errors
  ELSE LET played == inningsPlayed(positionLineup, players[i], 1, << >>)
       IN consecutiveErrors(positionLineup, position, players, i + 1,
            IF Len(played) > 1 /\ ~isConsecutive(played)
            THEN Append(errors, consecutiveError(players[i], position, played))
            ELSE errors)

\* Variant that reports no gap.
validateConsecutivePositionAssignments_none(lineups, position) == << >>

validateConsecutivePositionAssignments(lineups, position) ==
  LET positionLineup == IF position \in DOMAIN lineups THEN lineups[position] ELSE << >>
  IN consecutiveErrors(positionLineup, position,
       playersWhoPlayedPosition(positionLineup, 1, << >>), 1, << >>)

RECURSIVE infieldErrors_oneInning(_, _, _, _)
\* Variant that asks for 1 infield inning.
infieldErrors_oneInning(attending, stats, i, errors) ==
  IF i > Len(attending) THEN errors
  ELSE infieldErrors_oneInning(attending, stats, i + 1,
         IF stats[attending[i]].infieldInnings < 1
         THEN Append(errors, infieldError(attending[i], stats[attending[i]].infieldInnings))
         ELSE errors)

RECURSIVE infieldErrors(_, _, _, _)
infieldErrors(attending, stats, i, errors) ==
  IF i > Len(attending) THEN errors
  ELSE infieldErrors(attending, stats, i + 1,
         IF stats[attending[i]].infieldInnings < 2
         THEN Append(errors, infieldError(attending[i], stats[attending[i]].infieldInnings))
         ELSE errors)

\* Math.max(...[]) - Math.min(...[]) is -Infinity: no error without players.
benchErrors(attending, stats) ==
  IF Len(attending) = 0 THEN << >>
  ELSE LET benchInnings == { stats[attending[i]].benchInnings : i \in DOMAIN attending }
           maxBench == SetMax(benchInnings)
           minBench == SetMin(benchInnings)
       IN IF maxBench - minBench > 1 THEN << benchError(maxBench, minBench) >> ELSE << >>

validateLineup(lineups, r, att) ==
  IF calculatePlayerStatsThrows(lineups, r, att)
  THEN [ threw |-> TRUE, isValid |-> FALSE, errors |-> << >> ]
  ELSE LET stats == calculatePlayerStats(lineups, r, att)
           attending == getAttendingPlayers(r, att)
           errors == infieldErrors(attending, stats, 1, << >>)
                       \o benchErrors(attending, stats)
                       \o validateConsecutivePositionAssignments(lineups, "Pitcher")
                       \o validateConsecutivePositionAssignments(lineups, "Catcher")
       IN [ threw |-> FALSE, isValid |-> (Len(errors) = 0), errors |-> errors ]

\* ------------------------------------------------------------------ sitting plan

\* The comparator of playersByPriority: negative, zero or positive.
sittingPriority(sittingCounts, targetSittingPerPlayer, a, b) ==
  LET aCount == sittingCounts[a]
      bCount == sittingCounts[b]
  IN IF aCount < targetSittingPerPlayer /\ bCount >= targetSittingPerPlayer THEN -1
     ELSE IF aCount >= targetSittingPerPlayer /\ bCount < targetSittingPerPlayer THEN 1
     ELSE aCount - bCount

RECURSIVE insertByPriority(_, _, _, _)
\* Stable insertion: x goes behind every element it does not precede.
insertByPriority(sorted, x, sittingCounts, target) ==
  IF sorted = << >> THEN << x >>
  ELSE IF sittingPriority(sittingCounts, target, x, sorted[Len(sorted)]) < 0
       THEN Append(insertByPriority(SubSeq(sorted, 1, Len(sorted) - 1), x, sittingCounts, target),
                   sorted[Len(sorted)])
       ELSE Append(sorted, x)

RECURSIVE sortByPriority(_, _, _, _, _)
\* [...attendingPlayers].sort(comparator); Array.prototype.sort is stable.
sortByPriority(players, i, sorted, sittingCounts, target) ==
  IF i > Len(players) THEN sorted
  ELSE sortByPriority(players, i + 1,
         insertByPriority(sorted, players[i], sittingCounts, target), sittingCounts, target)

RECURSIVE distributeSitting(_, _, _, _, _, _)
\* The inning loop of generateFairSittingAssignment; the result is
\* [ok, sittingAssignment, sittingCounts], ok = FALSE for "return null".
distributeSitting(attendingPlayers, sittingPerInning, target, inning, assignment, sittingCounts) ==
  IF inning >= INNING_COUNT
  THEN [ ok |-> TRUE, sittingAssignment |-> assignment, sittingCounts |-> sittingCounts ]
  ELSE LET maxSittingPerPlayer == target + 1
           playersByPriority == sortByPriority(attendingPlayers, 1, << >>, sittingCounts, target)
           eligibleToSit ==
             SelectSeq(playersByPriority, LAMBDA p : sittingCounts[p] < maxSittingPerPlayer)
           needToReachTarget == SelectSeq(eligibleToSit, LAMBDA p : sittingCounts[p] < target)
           fromTarget == Min2(Len(needToReachTarget), sittingPerInning)
           first == SubSeq(needToReachTarget, 1, fromTarget)
           remaining == sittingPerInning - Len(first)
           otherEligible == SelectSeq(eligibleToSit, LAMBDA p : ~includes(first, p))
           sittingThisInning ==
             IF remaining > 0
             THEN first \o SubSeq(otherEligible, 1, Min2(remaining, Len(otherEligible)))
             ELSE first
       IN IF Len(eligibleToSit) < sittingPerInning
          THEN [ ok |-> FALSE, sittingAssignment |-> assignment, sittingCounts |-> sittingCounts ]
          ELSE distributeSitting(attendingPlayers, sittingPerInning, target, inning + 1,
                 Append(assignment, sittingThisInning),
                 [ p \in DOMAIN sittingCounts |->
                     IF includes(sittingThisInning, p) THEN sittingCounts[p] + 1
                     ELSE sittingCounts[p] ])

\* Variant in which the first players of the list sit in every inning.
generateFairSittingAssignment_firstPlayers(r, att) ==
  LET attendingPlayers == getAttendingPlayers(r, att)
      sittingPerInning == Max2(0, Len(attendingPlayers) - 9)
  IN [ ok |-> TRUE,
       sittingAssignment |->
         [ i \in 1..INNING_COUNT |-> SubSeq(attendingPlayers, 1, sittingPerInning) ] ]

\* Variant whose final check asks for equal sitting counts.
generateFairSittingAssignment_equalCounts(r, att) ==
  LET attendingPlayers == getAttendingPlayers(r, att)
      sittingPerInning == Max2(0, Len(attendingPlayers) - 9)
      totalSittingSlots == sittingPerInning * INNING_COUNT
      targetSittingPerPlayer ==
        IF Len(attendingPlayers) > 0 THEN totalSittingSlots \div Len(attendingPlayers) ELSE 0
      d == distributeSitting(attendingPlayers, sittingPerInning, targetSittingPerPlayer, 0,
             << >>, [ p \in Range(attendingPlayers) |-> 0 ])
      counts == { d.sittingCounts[p] : p \in DOMAIN d.sittingCounts }
  IN IF ~d.ok THEN [ ok |-> FALSE, sittingAssignment |-> << >> ]
     ELSE IF counts # {} /\ SetMax(counts) - SetMin(counts) > 0
          THEN [ ok |-> FALSE, sittingAssignment |-> << >> ]
     ELSE [ ok |-> TRUE, sittingAssignment |-> d.sittingAssignment ]

\* The result is [ok, sittingAssignment]: ok = FALSE models null, and
\* sittingAssignment[inning + 1] lists the players sitting in that inning.
generateFairSittingAssignment(r, att) ==
  LET attendingPlayers == getAttendingPlayers(r, att)
      sittingPerInning == Max2(0, Len(attendingPlayers) - 9)
      totalSittingSlots == sittingPerInning * INNING_COUNT
      targetSittingPerPlayer ==
        IF Len(attendingPlayers) > 0 THEN totalSittingSlots \div Len(attendingPlayers) ELSE 0
      d == distributeSitting(attendingPlayers, sittingPerInning, targetSittingPerPlayer, 0,
             << >>, [ p \in Range(attendingPlayers) |-> 0 ])
      counts == { d.sittingCounts[p] : p \in DOMAIN d.sittingCounts }
  IN IF ~d.ok THEN [ ok |-> FALSE, sittingAssignment |-> << >> ]
     ELSE IF counts # {} /\ SetMax(counts) - SetMin(counts) > 1
          THEN [ ok |-> FALSE, sittingAssignment |-> << >> ]
     ELSE [ ok |-> TRUE, sittingAssignment |-> d.sittingAssignment ]

RECURSIVE pushSitting(_, _, _, _)
\* Row 'Sitting i' receives player i of the list, or '' up to sittingSlots.
pushSitting(lineups, sittingPlayers, sittingSlots, i) ==
  IF i <= Len(sittingPlayers)
  THEN pushSitting(PushRow(lineups, SittingKey(i), sittingPlayers[i]),
                   sittingPlayers, sittingSlots, i + 1)
  ELSE IF i <= sittingSlots
  THEN pushSitting(PushRow(lineups, SittingKey(i), ""), sittingPlayers, sittingSlots, i + 1)
  ELSE lineups

\* Variant that adds no sitting row.
addSittingRows_none(lineups, sittingAssignment, sittingSlots, inning) == lineups

RECURSIVE addSittingRows(_, _, _, _)
\* The second loop of generateLineupsWithSittingAssignment: one or more
\* 'Sitting k' pushes per inning, then '' for the slots left over.
addSittingRows(lineups, sittingAssignment, sittingSlots, inning) ==
  IF inning >= INNING_COUNT THEN lineups
  ELSE addSittingRows(
         pushSitting(lineups, sittingAssignment[inning + 1], sittingSlots, 1),
         sittingAssignment, sittingSlots, inning + 1)

\* ------------------------------------------------------------------ state

VARIABLES
  roster,              \* string[]
  battingOrder,        \* string[]
  playerCapabilities,  \* player -> positions (an array)
  playerAttendance,    \* player -> boolean
  generatedLineups,    \* key -> row
  pc,                  \* where generateDefensiveLineups stands: "idle" between calls
  attempts,            \* generateDefensiveLineups: attempts
  bestScore,           \* generateDefensiveLineups: bestScore
  bestLineups,         \* generateDefensiveLineups: bestLineups
  sittingAssignment,   \* the plan of the current attempt
  lineups,             \* the lineup under construction
  playerStats,         \* the stats accumulated while constructing it
  inning,              \* loop counter, 0-based
  posIdx,              \* index into POSITIONS of the position to fill next
  availablePlayers,    \* the players not yet placed in this inning
  returned,            \* what generateLineupsWithSittingAssignment returned last:
                       \* "none", "null" or "lineup" (then lineups holds it)
  validation,          \* the result of the last validateLineup call
  outcome,             \* how the last call ended: "none", "valid", "best",
                       \* "fallback", "threw", "validated"; "none"
                       \* while a call runs and after a roster handler
  committed,           \* the lineup the last call passed to Object.assign
  candidates,          \* the complete lineups of this call that failed validation
  calls,               \* handler invocations so far
  gameMetadata,        \* gameDate, gameTime, homeTeam, awayTeam, isHomeTeam, field
  initialRoster,       \* the state kept by saveInitialState
  initialBattingOrder,
  initialGeneratedLineups,
  initialPlayerCapabilities,
  initialPlayerAttendance,
  initialGameMetadata,
  hasInitialState,
  sharedArrays,        \* the groups of slots that hold the same array
  hash,                \* window.location.hash
  urlUpdates,          \* the state objects of the updateUrlFromState calls
                       \* that have not written the URL yet, oldest first
  result,              \* the last handler that returns a value, and the value
  saved,               \* the state object at the last saveInitialState
  exported             \* the last fragment exportStateToUrl returned to a
                       \* caller, and the state object at that moment

vars ==
  << roster, battingOrder, playerCapabilities, playerAttendance, generatedLineups,
     pc, attempts, bestScore, bestLineups, sittingAssignment, lineups, playerStats,
     inning, posIdx, availablePlayers, returned, validation, outcome, committed,
     candidates, calls, gameMetadata, initialRoster, initialBattingOrder,
     initialGeneratedLineups, initialPlayerCapabilities, initialPlayerAttendance,
     initialGameMetadata, hasInitialState, sharedArrays, hash, urlUpdates, result,
     saved, exported >>

inputs == << roster, battingOrder, playerCapabilities, playerAttendance >>

locals == << sittingAssignment, lineups, playerStats, inning, posIdx, availablePlayers >>

initialState ==
  << initialRoster, initialBattingOrder, initialGeneratedLineups, initialPlayerCapabilities,
     initialPlayerAttendance, initialGameMetadata, hasInitialState >>

\* What the lineup generator and the roster handlers leave alone.
session == << gameMetadata, initialState, hash, saved, exported >>

\* The object exportStateToUrl builds at this moment.
currentState ==
  stateObject(roster, playerCapabilities, generatedLineups, battingOrder, playerAttendance,
              gameMetadata)

\* The handler called last with its return value (FALSE for void), and the
\* name and the fragment it was given ("" and noHash when it takes none).
returns(handler, value, player, fragment) ==
  [ of |-> handler, value |-> value, player |-> player, hash |-> fragment ]

noResult == returns("none", FALSE, "", noHash)

\* The slots of the arrays the state holds.
slots ==
  slotsOf("capabilities", "current", playerCapabilities)
    \cup slotsOf("capabilities", "initial", initialPlayerCapabilities)
    \cup slotsOf("lineups", "current", generatedLineups)
    \cup slotsOf("lineups", "initial", initialGeneratedLineups)

\* The groups once the slots R hold new arrays or are deleted.
dropSlots(groups, R) == regroup(groups, [ s \in slots \ R |-> s ])

\* updateUrlFromState up to its first await: exportStateToUrl builds the state
\* object st; encoding it and writing the URL follow asynchronously.
startUrlUpdate(st) == urlUpdates' = Append(urlUpdates, st)

attending == getAttendingPlayers(roster, playerAttendance)

\* POSITIONS.forEach((position) => { lineups[position] = []; })
emptyLineups == [ position \in PositionSet |-> << >> ]

\* Variant in which the last players of the list sit instead.
notSitting_lastPlayers(sittingThisInning) ==
  SubSeq(attending, 1, Len(attending) - Len(sittingThisInning))

\* getAttendingPlayers().filter((player) => !sittingThisInning.includes(player))
notSitting(sittingThisInning) ==
  SelectSeq(attending, LAMBDA player : ~includes(sittingThisInning, player))

\* Variant that asks for the capability alone.
eligiblePlayers_capable ==
  SelectSeq(availablePlayers, LAMBDA player :
    canPlayerPlayPosition(playerCapabilities, player, POSITIONS[posIdx]))

eligiblePlayers ==
  SelectSeq(availablePlayers, LAMBDA player :
    canPlayerPlayPositionInSpecificInning(playerCapabilities, player, POSITIONS[posIdx],
                                          inning, playerStats, lineups))

\* sittingThisInning.forEach((player) => { playerStats[player].benchInnings++; })
benchSitting(stats, sittingThisInning) ==
  [ player \in DOMAIN stats |->
      IF includes(sittingThisInning, player)
      THEN [ stats[player] EXCEPT !.benchInnings = @ + 1 ]
      ELSE stats[player] ]

\* Math.max(0, getAttendingPlayers().length - 9)
sittingSlots == Max2(0, Len(attending) - 9)

noValidation == [ threw |-> FALSE, isValid |-> FALSE, errors |-> << >> ]

\* ------------------------------------------------------------------ rosters

Names == << "A", "B", "C", "D", "E", "F", "G", "H", "I", "J" >>

nine == SubSeq(Names, 1, 9)

\* Player i is capable of positions i and i + 1 of a ring of the nine positions.
ringCapabilities(ring) ==
  [ player \in Range(nine) |->
      << ring[indexOf(nine, player)], ring[(indexOf(nine, player) % 9) + 1] >> ]

\* A ring on which every player has an infield position.
infieldRing ==
  << "Pitcher", "Catcher", "1st Base", "Left Field", "2nd Base", "Center Field",
     "3rd Base", "Right Field", "Shortstop" >>

\* Player i is capable of position i alone.
singleCapabilities == [ player \in Range(nine) |-> << POSITIONS[indexOf(nine, player)] >> ]

allAttending(r) == [ player \in Range(r) |-> TRUE ]

\* The states a call of generateDefensiveLineups starts from; each is reached
\* from the empty state by addPlayer, togglePlayerCapability and
\* togglePlayerAttendance.
Scenarios ==
  { \* nine players on the ring of POSITIONS: two of them are outfield-only
    [ roster |-> nine, capabilities |-> ringCapabilities(POSITIONS),
      attendance |-> allAttending(nine) ],
    \* the same, the ninth player without any capability
    [ roster |-> nine, capabilities |-> DeleteKey(ringCapabilities(POSITIONS), "I"),
      attendance |-> allAttending(nine) ],
    \* the same, the ninth player absent: eight attending players
    [ roster |-> nine, capabilities |-> ringCapabilities(POSITIONS),
      attendance |-> ObjectAssign(allAttending(nine), [ player \in {"I"} |-> FALSE ]) ] }

\* Rosters that admit a valid lineup: nine players, and ten with one sitting
\* in every inning; and the ring of POSITIONS, whose only complete lineup
\* fails validation.
AttemptScenarios ==
  { [ roster |-> nine, capabilities |-> ringCapabilities(infieldRing),
      attendance |-> allAttending(nine) ],
    [ roster |-> Names,
      capabilities |-> ObjectAssign(ringCapabilities(infieldRing),
                                    [ player \in {"J"} |-> SubSeq(infieldRing, 1, 6) ]),
      attendance |-> allAttending(Names) ],
    [ roster |-> nine, capabilities |-> ringCapabilities(POSITIONS),
      attendance |-> allAttending(nine) ] }

\* Ten players with one position each, two of them pitchers.
SessionScenarios ==
  { [ roster |-> Names,
      capabilities |-> ObjectAssign(singleCapabilities, [ player \in {"J"} |-> << "Pitcher" >> ]),
      attendance |-> allAttending(Names) ] }

\* ------------------------------------------------------------------ actions

\* The module state filled from a scenario s with the generated lineups g, c
\* handler invocations counted, and the locals l (lineups), stats
\* (playerStats), i (inning) and k (index of the position) of the generator.
InitCall(s, g, c, l, stats, i, k) ==
  /\ roster = s.roster
  /\ playerCapabilities = s.capabilities
  /\ playerAttendance = s.attendance
  /\ battingOrder = s.roster
  /\ generatedLineups = g
  /\ pc = "idle"
  /\ attempts = 0
  /\ bestScore = -1
  /\ bestLineups = << >>
  /\ sittingAssignment = << >>
  /\ lineups = l
  /\ playerStats = stats
  /\ inning = i
  /\ posIdx = k
  /\ availablePlayers = << >>
  /\ returned = "none"
  /\ validation = noValidation
  /\ outcome = "none"
  /\ committed = << >>
  /\ candidates = << >>
  /\ calls = c
  /\ gameMetadata = emptyGameMetadata
  /\ initialRoster = << >>
  /\ initialBattingOrder = << >>
  /\ initialGeneratedLineups = << >>
  /\ initialPlayerCapabilities = << >>
  /\ initialPlayerAttendance = << >>
  /\ initialGameMetadata = emptyGameMetadata
  /\ hasInitialState = FALSE
  /\ sharedArrays = {}
  \* the URL written by the handlers that built this state
  /\ hash = IF schemaAccepts(stateObject(s.roster, s.capabilities, g, s.roster, s.attendance,
                                         emptyGameMetadata))
            THEN encodeState(stateObject(s.roster, s.capabilities, g, s.roster, s.attendance,
                                         emptyGameMetadata))
            ELSE noHash
  /\ urlUpdates = << >>
  /\ result = noResult
  /\ saved = stateObject(<< >>, << >>, << >>, << >>, << >>, emptyGameMetadata)
  /\ exported = [ fragment |-> noHash,
                  state |-> stateObject(<< >>, << >>, << >>, << >>, << >>, emptyGameMetadata) ]

\* The same with no call running.
InitFrom(s, g, c) == InitCall(s, g, c, << >>, << >>, 0, 1)

\* One handler invocation is left.
Init == \E s \in Scenarios : InitFrom(s, << >>, MaxCalls - 1)

\* The call and the declarations ahead of the while loop.
generateDefensiveLineups ==
  /\ pc = "idle"
  /\ calls < MaxCalls
  /\ calls' = calls + 1
  /\ attempts' = 0
  /\ bestLineups' = << >>
  /\ bestScore' = -1
  /\ pc' = "loop"
  /\ returned' = "none"
  /\ validation' = noValidation
  /\ outcome' = "none"
  /\ committed' = << >>
  /\ candidates' = << >>
  /\ sittingAssignment' = << >>
  /\ lineups' = << >>
  /\ playerStats' = << >>
  /\ inning' = 0
  /\ posIdx' = 1
  /\ availablePlayers' = << >>
  /\ result' = returns("generateDefensiveLineups", FALSE, "", noHash)
  /\ UNCHANGED << inputs, generatedLineups, session, sharedArrays, urlUpdates >>

\* Object.assign(generatedLineups, l) followed by updateUrlFromState(): the
\* rows of l are new arrays.
commitLineups(l) ==
  /\ generatedLineups' = ObjectAssign(generatedLineups, l)
  /\ committed' = l
  /\ sharedArrays' = dropSlots(sharedArrays, slotsOf("lineups", "current", l))
  /\ startUrlUpdate(stateObject(roster, playerCapabilities, ObjectAssign(generatedLineups, l),
                                battingOrder, playerAttendance, gameMetadata))

\* Variant in which the plan of a retry starts from the roster rotated by
\* the number of attempts made.
fairSittingAssignment_perAttempt ==
  generateFairSittingAssignment(
    [ i \in DOMAIN roster |-> roster[((i - 1 + attempts) % Len(roster)) + 1] ],
    playerAttendance)

\* const sittingAssignment = generateFairSittingAssignment() of an attempt.
fairSittingAssignment == generateFairSittingAssignment(roster, playerAttendance)

\* The loop test; then either the next attempt up to the call of
\* generateLineupsWithSittingAssignment, or the code behind the loop.
loopTest ==
  /\ pc = "loop"
  /\ IF attempts < maxAttempts
     THEN LET plan == fairSittingAssignment
          IN /\ attempts' = attempts + 1
             /\ returned' = "none"
             /\ IF ~plan.ok
                THEN /\ pc' = "loop"
                     /\ UNCHANGED locals
                ELSE /\ pc' = "fill"
                     /\ sittingAssignment' = plan.sittingAssignment
                     /\ lineups' = emptyLineups
                     /\ playerStats' = initPlayerStats(attending)
                     /\ inning' = 0
                     /\ posIdx' = 1
                     /\ availablePlayers' = notSitting(plan.sittingAssignment[1])
             /\ UNCHANGED << generatedLineups, outcome, committed, sharedArrays, urlUpdates >>
     ELSE IF DOMAIN bestLineups # {}
     THEN /\ commitLineups(bestLineups)
          /\ outcome' = "best"
          /\ pc' = "idle"
          /\ UNCHANGED << attempts, returned, locals >>
     ELSE \* generateSimpleLineups, up to its first position
          /\ pc' = "simple"
          /\ returned' = "none"
          /\ lineups' = emptyLineups
          /\ playerStats' = initPlayerStats(attending)
          /\ inning' = 0
          /\ posIdx' = 1
          /\ availablePlayers' = attending
          /\ UNCHANGED << attempts, sittingAssignment, generatedLineups, outcome, committed,
                          sharedArrays, urlUpdates >>
  /\ UNCHANGED << inputs, bestScore, bestLineups, validation, candidates, calls, session, result >>

\* generateLineupsWithSittingAssignment: one position of one inning gets a
\* randomly selected eligible player.  Behind the last position of the last
\* inning the sitting rows are added, the lineup is returned and validated,
\* and it is committed or scored.
assignPosition ==
  /\ pc = "fill"
  /\ \E randomIndex \in DOMAIN eligiblePlayers :
       LET position == POSITIONS[posIdx]
           selectedPlayer == eligiblePlayers[randomIndex]
           filled == [ lineups EXCEPT ![position] = Append(@, selectedPlayer) ]
           counted == countPosition(playerStats, selectedPlayer, position)
           rest == spliceOne(availablePlayers, indexOf(availablePlayers, selectedPlayer))
       IN IF posIdx < Len(POSITIONS)
          THEN /\ lineups' = filled
               /\ playerStats' = counted
               /\ availablePlayers' = rest
               /\ posIdx' = posIdx + 1
               /\ UNCHANGED << inning, pc, generatedLineups, returned, validation, outcome,
                               committed, bestScore, bestLineups, candidates,
                               sharedArrays, urlUpdates >>
          ELSE IF inning + 1 < INNING_COUNT
          THEN /\ lineups' = filled
               /\ playerStats' = benchSitting(counted, sittingAssignment[inning + 1])
               /\ inning' = inning + 1
               /\ posIdx' = 1
               /\ availablePlayers' = notSitting(sittingAssignment[inning + 2])
               /\ UNCHANGED << pc, generatedLineups, returned, validation, outcome,
                               committed, bestScore, bestLineups, candidates,
                               sharedArrays, urlUpdates >>
          ELSE LET complete == addSittingRows(filled, sittingAssignment, sittingSlots, 0)
                   verdict == validateLineup(complete, roster, playerAttendance)
                   score == 0 - Len(verdict.errors)
               IN /\ lineups' = complete
                  /\ playerStats' = benchSitting(counted, sittingAssignment[inning + 1])
                  /\ availablePlayers' = rest
                  /\ returned' = "lineup"
                  /\ validation' = verdict
                  /\ UNCHANGED << inning, posIdx >>
                  /\ IF verdict.threw
                     THEN \* the TypeError leaves generateDefensiveLineups
                          /\ pc' = "idle"
                          /\ outcome' = "threw"
                          /\ UNCHANGED << generatedLineups, committed, bestScore,
                                          bestLineups, candidates, sharedArrays, urlUpdates >>
                     ELSE IF verdict.isValid
                     THEN /\ commitLineups(complete)
                          /\ outcome' = "valid"
                          /\ pc' = "idle"
                          /\ UNCHANGED << bestScore, bestLineups, candidates >>
                     ELSE /\ candidates' = Append(candidates, complete)
                          /\ IF score > bestScore
                             THEN bestScore' = score /\ bestLineups' = complete
                             ELSE UNCHANGED << bestScore, bestLineups >>
                          /\ pc' = "loop"
                          /\ UNCHANGED << generatedLineups, outcome, committed,
                                          sharedArrays, urlUpdates >>
  /\ UNCHANGED << inputs, attempts, sittingAssignment, calls, session, result >>

\* Variant that returns the unfinished lineup instead of null.
noEligiblePlayer_returnsLineup ==
  /\ pc = "fill"
  /\ eligiblePlayers = << >>
  /\ pc' = "loop"
  /\ returned' = "lineup"
  /\ UNCHANGED << inputs, generatedLineups, attempts, bestScore, bestLineups, locals,
                  validation, outcome, committed, candidates, calls, session, result,
                  sharedArrays, urlUpdates >>

\* generateLineupsWithSittingAssignment: no eligible player, return null; the
\* caller continues with the next attempt.
noEligiblePlayer ==
  /\ pc = "fill"
  /\ eligiblePlayers = << >>
  /\ pc' = "loop"
  /\ returned' = "null"
  /\ UNCHANGED << inputs, generatedLineups, attempts, bestScore, bestLineups, locals,
                  validation, outcome, committed, candidates, calls, session, result,
                  sharedArrays, urlUpdates >>

\* generateSimpleLineups: what follows the choice for one position.  Behind the
\* last position of an inning the players left over become the 'Sitting k'
\* rows; behind the last inning the lineup is assigned to generatedLineups.
simpleAdvance(filled, counted, rest) ==
  IF posIdx < Len(POSITIONS)
  THEN /\ lineups' = filled
       /\ playerStats' = counted
       /\ availablePlayers' = rest
       /\ posIdx' = posIdx + 1
       /\ UNCHANGED << inning, pc, generatedLineups, outcome, committed, sharedArrays,
                       urlUpdates >>
  ELSE LET withSitting == pushSitting(filled, rest, sittingSlots, 1)
           benched == benchSitting(counted, rest)
       IN IF inning + 1 < INNING_COUNT
          THEN /\ lineups' = withSitting
               /\ playerStats' = benched
               /\ availablePlayers' = attending
               /\ inning' = inning + 1
               /\ posIdx' = 1
               /\ UNCHANGED << pc, generatedLineups, outcome, committed, sharedArrays,
                               urlUpdates >>
          ELSE /\ lineups' = withSitting
               /\ playerStats' = benched
               /\ availablePlayers' = rest
               /\ UNCHANGED << inning, posIdx >>
               /\ commitLineups(withSitting)
               /\ outcome' = "fallback"
               /\ pc' = "idle"

\* generateSimpleLineups: a randomly selected eligible player takes the position.
simpleAssignPlayer ==
  /\ pc = "simple"
  /\ \E randomIndex \in DOMAIN eligiblePlayers :
       LET position == POSITIONS[posIdx]
           selectedPlayer == eligiblePlayers[randomIndex]
       IN simpleAdvance([ lineups EXCEPT ![position] = Append(@, selectedPlayer) ],
                        countPosition(playerStats, selectedPlayer, position),
                        spliceOne(availablePlayers, indexOf(availablePlayers, selectedPlayer)))
  /\ UNCHANGED << inputs, attempts, bestScore, bestLineups, sittingAssignment,
                  returned, validation, candidates, calls, session, result >>

\* Variant that gives up as generateLineupsWithSittingAssignment does.
simpleAssignEmpty_givesUp ==
  /\ pc = "simple"
  /\ eligiblePlayers = << >>
  /\ pc' = "loop"
  /\ UNCHANGED << inputs, generatedLineups, attempts, bestScore, bestLineups, locals,
                  returned, validation, outcome, committed, candidates, calls, session,
                  result, sharedArrays, urlUpdates >>

\* generateSimpleLineups: nobody is eligible, the position gets ''.
simpleAssignEmpty ==
  /\ pc = "simple"
  /\ eligiblePlayers = << >>
  /\ simpleAdvance([ lineups EXCEPT ![POSITIONS[posIdx]] = Append(@, "") ],
                   playerStats, availablePlayers)
  /\ UNCHANGED << inputs, attempts, bestScore, bestLineups, sittingAssignment,
                  returned, validation, candidates, calls, session, result >>

\* Variant that leaves the batting order as it is.
removeFromBattingOrder_keeps(order, player) == order

\* battingOrder without its first occurrence of the player
removeFromBattingOrder(order, player) ==
  IF indexOf(order, player) > 0 THEN spliceOne(order, indexOf(order, player)) ELSE order

\* What the handlers outside the lineup generator leave alone.
generator ==
  << pc, attempts, bestScore, bestLineups, locals, returned, validation, committed,
     candidates >>

\* A handler is called between two calls of the generator.
called(handler, value, player, fragment) ==
  /\ pc = "idle"
  /\ calls < MaxCalls
  /\ calls' = calls + 1
  /\ outcome' = "none"
  /\ result' = returns(handler, value, player, fragment)
  /\ UNCHANGED generator

removePlayer(player) ==
  /\ called("removePlayer", FALSE, player, noHash)
  /\ IF indexOf(roster, player) > 0
     THEN /\ roster' = spliceOne(roster, indexOf(roster, player))
          /\ battingOrder' = removeFromBattingOrder(battingOrder, player)
          /\ playerCapabilities' = DeleteKey(playerCapabilities, player)
          /\ playerAttendance' = DeleteKey(playerAttendance, player)
          /\ sharedArrays' = dropSlots(sharedArrays, {slot("capabilities", "current", player)})
          /\ startUrlUpdate(stateObject(roster', playerCapabilities', generatedLineups,
                                        battingOrder', playerAttendance', gameMetadata))
     ELSE UNCHANGED << inputs, sharedArrays, urlUpdates >>
  /\ UNCHANGED << generatedLineups, session >>

\* Object.keys(generatedLineups).forEach((key) => delete generatedLineups[key])
clearGeneratedLineups == << >>

\* The attendance flips (unset counts as attending) and the generated lineups
\* are cleared by clearGeneratedLineups().
togglePlayerAttendance(player) ==
  /\ called("togglePlayerAttendance", FALSE, player, noHash)
  /\ playerAttendance' =
       [ p \in (DOMAIN playerAttendance) \cup {player} |->
           IF p = player
           THEN ~(IF player \in DOMAIN playerAttendance THEN playerAttendance[player] ELSE TRUE)
           ELSE playerAttendance[p] ]
  /\ generatedLineups' = clearGeneratedLineups
  /\ sharedArrays' = dropSlots(sharedArrays, slotsOf("lineups", "current", generatedLineups))
  \* one updateUrlFromState in clearGeneratedLineups, one in the handler
  /\ urlUpdates' =
       LET st == stateObject(roster, playerCapabilities, clearGeneratedLineups, battingOrder,
                             playerAttendance', gameMetadata)
       IN Append(Append(urlUpdates, st), st)
  /\ UNCHANGED << roster, battingOrder, playerCapabilities, session >>

\* Variant that removes the empty entries from the rows it is given.
validateGeneratedLineups_compacting ==
  /\ pc = "idle"
  /\ calls < MaxCalls
  /\ calls' = calls + 1
  /\ validation' = validateLineup(generatedLineups, roster, playerAttendance)
  /\ generatedLineups' =
       [ key \in DOMAIN generatedLineups |->
           SelectSeq(generatedLineups[key], LAMBDA player : player # "") ]
  /\ outcome' = "validated"
  /\ result' = returns("validateLineup", validation'.isValid, "", noHash)
  /\ UNCHANGED << inputs, pc, attempts, bestScore, bestLineups, locals,
                  returned, committed, candidates, session, sharedArrays, urlUpdates >>

\* A caller (the lineup page, the tests) validates the generated lineups.
validateGeneratedLineups ==
  /\ pc = "idle"
  /\ calls < MaxCalls
  /\ calls' = calls + 1
  /\ validation' = validateLineup(generatedLineups, roster, playerAttendance)
  /\ outcome' = "validated"
  /\ result' = returns("validateLineup", validation'.isValid, "", noHash)
  /\ UNCHANGED << inputs, generatedLineups, pc, attempts, bestScore, bestLineups, locals,
                  returned, committed, candidates, session, sharedArrays, urlUpdates >>

\* ------------------------------------------------------------------ roster, capabilities, metadata

addPlayer(playerName) ==
  LET name == trim(playerName)
      accepted == name # "" /\ ~includes(roster, name)
  IN /\ called("addPlayer", accepted, playerName, noHash)
     /\ IF accepted
        THEN /\ roster' = Append(roster, name)
             /\ playerAttendance' = ObjectAssign(playerAttendance, [ p \in {name} |-> TRUE ])
             /\ startUrlUpdate(stateObject(roster', playerCapabilities, generatedLineups,
                                           battingOrder, playerAttendance', gameMetadata))
        ELSE UNCHANGED << roster, playerAttendance, urlUpdates >>
     /\ UNCHANGED << battingOrder, playerCapabilities, generatedLineups, session, sharedArrays >>

\* obj[newKey] = obj[oldKey]; delete obj[oldKey]
moveKey(obj, oldKey, newKey) ==
  DeleteKey(ObjectAssign(obj, [ k \in {newKey} |-> obj[oldKey] ]), oldKey)

updatePlayerName(oldName, newName) ==
  LET name == trim(newName)
      index == indexOf(roster, oldName)
      battingIndex == indexOf(battingOrder, oldName)
      accepted == name # "" /\ ~includes(roster, name) /\ index > 0
      \* the capability array moves to the new key
      origin(s) ==
        IF s = slot("capabilities", "current", name)
        THEN slot("capabilities", "current", oldName)
        ELSE s
  IN /\ called("updatePlayerName", accepted, newName, noHash)
     /\ IF accepted
        THEN /\ roster' = [ roster EXCEPT ![index] = name ]
             /\ battingOrder' =
                  IF battingIndex > 0 THEN [ battingOrder EXCEPT ![battingIndex] = name ]
                  ELSE battingOrder
             /\ playerCapabilities' =
                  IF oldName \in DOMAIN playerCapabilities
                  THEN moveKey(playerCapabilities, oldName, name)
                  ELSE playerCapabilities
             /\ playerAttendance' =
                  IF oldName \in DOMAIN playerAttendance
                  THEN moveKey(playerAttendance, oldName, name)
                  ELSE playerAttendance
             /\ sharedArrays' =
                  IF oldName \in DOMAIN playerCapabilities
                  THEN regroup(sharedArrays,
                               [ s \in (slots \ {slot("capabilities", "current", oldName)})
                                   \cup {slot("capabilities", "current", name)}
                                 |-> origin(s) ])
                  ELSE sharedArrays
             /\ startUrlUpdate(stateObject(roster', playerCapabilities', generatedLineups,
                                           battingOrder', playerAttendance', gameMetadata))
        ELSE UNCHANGED << inputs, sharedArrays, urlUpdates >>
     /\ UNCHANGED << generatedLineups, session >>

\* The array after currentCapabilities.splice(index, 1) or .push(position).
toggled(currentCapabilities, position) ==
  IF indexOf(currentCapabilities, position) > 0
  THEN spliceOne(currentCapabilities, indexOf(currentCapabilities, position))
  ELSE Append(currentCapabilities, position)

\* A missing entry gets a new array; an existing array is changed in place,
\* under every key that holds it.
togglePlayerCapability(player, position) ==
  LET s == slot("capabilities", "current", player) IN
  /\ called("togglePlayerCapability", FALSE, player, noHash)
  /\ IF player \in DOMAIN playerCapabilities
     THEN LET after == toggled(playerCapabilities[player], position)
          IN /\ playerCapabilities' =
                  writeArray(sharedArrays, playerCapabilities, "capabilities", "current", s, after)
             /\ initialPlayerCapabilities' =
                  writeArray(sharedArrays, initialPlayerCapabilities, "capabilities", "initial",
                             s, after)
     ELSE /\ playerCapabilities' =
               ObjectAssign(playerCapabilities, [ p \in {player} |-> toggled(<< >>, position) ])
          /\ UNCHANGED initialPlayerCapabilities
  /\ startUrlUpdate(stateObject(roster, playerCapabilities', generatedLineups, battingOrder,
                                playerAttendance, gameMetadata))
  /\ UNCHANGED << roster, battingOrder, playerAttendance, generatedLineups, gameMetadata,
                  initialRoster, initialBattingOrder, initialGeneratedLineups,
                  initialPlayerAttendance, initialGameMetadata, hasInitialState, hash, saved,
                  exported, sharedArrays >>

\* The orders [...roster].sort(() => Math.random() - 0.5) can produce.
shuffles(s) ==
  { order \in [ DOMAIN s -> Range(s) ] :
      \A x \in Range(s) :
        Cardinality({ i \in DOMAIN s : order[i] = x })
          = Cardinality({ i \in DOMAIN s : s[i] = x }) }

randomizeBattingOrder ==
  /\ called("randomizeBattingOrder", FALSE, "", noHash)
  /\ \E shuffled \in shuffles(roster) : battingOrder' = shuffled
  /\ playerAttendance' =
       [ player \in (DOMAIN playerAttendance) \cup Range(roster) |->
           IF player \in DOMAIN playerAttendance THEN playerAttendance[player] ELSE TRUE ]
  /\ startUrlUpdate(stateObject(roster, playerCapabilities, generatedLineups, battingOrder',
                                playerAttendance', gameMetadata))
  /\ UNCHANGED << roster, playerCapabilities, generatedLineups, session, sharedArrays >>

\* metadata holds the fields that are not undefined.
updateGameMetadata(metadata) ==
  /\ called("updateGameMetadata", FALSE, "", noHash)
  /\ gameMetadata' = ObjectAssign(gameMetadata, metadata)
  /\ startUrlUpdate(stateObject(roster, playerCapabilities, generatedLineups, battingOrder,
                                playerAttendance, gameMetadata'))
  /\ UNCHANGED << inputs, generatedLineups, initialState, hash, saved, exported, sharedArrays >>

\* Variant that takes a row with an entry for the inning, whoever it shows.
rowOf_anyRow(g, i, player) ==
  IF \E key \in DOMAIN g : i + 1 \in DOMAIN g[key]
  THEN CHOOSE key \in DOMAIN g : i + 1 \in DOMAIN g[key]
  ELSE ""

\* The key of the row that shows the player in the inning ("" when none
\* does).  The handler takes the last such row in the key order of the
\* object; it is called here for names that at most one row shows.
rowOf(g, i, player) ==
  IF \E key \in DOMAIN g : i + 1 \in DOMAIN g[key] /\ g[key][i + 1] = player
  THEN CHOOSE key \in DOMAIN g : i + 1 \in DOMAIN g[key] /\ g[key][i + 1] = player
  ELSE ""

\* The two rows are changed in place, under every key that holds them.
swapPlayersInInning(position, i, player1, player2) ==
  LET player1Position == rowOf(generatedLineups, i, player1)
      player2Position == rowOf(generatedLineups, i, player2)
      s1 == slot("lineups", "current", player1Position)
      s2 == slot("lineups", "current", player2Position)
      swaps ==
        /\ position \in DOMAIN generatedLineups
        /\ i >= 0 /\ i < INNING_COUNT
        /\ ~(cell(generatedLineups, position, i) = player1 /\ player1 = player2)
        /\ player1Position # "" /\ player2Position # ""
      row1 == [ generatedLineups[player1Position] EXCEPT ![i + 1] = player2 ]
      g1 == writeArray(sharedArrays, generatedLineups, "lineups", "current", s1, row1)
      i1 == writeArray(sharedArrays, initialGeneratedLineups, "lineups", "initial", s1, row1)
      row2 == [ g1[player2Position] EXCEPT ![i + 1] = player1 ]
  IN /\ called("swapPlayersInInning", FALSE, player1, noHash)
     /\ IF swaps
        THEN /\ generatedLineups' =
                  writeArray(sharedArrays, g1, "lineups", "current", s2, row2)
             /\ initialGeneratedLineups' =
                  writeArray(sharedArrays, i1, "lineups", "initial", s2, row2)
             /\ startUrlUpdate(stateObject(roster, playerCapabilities, generatedLineups',
                                           battingOrder, playerAttendance, gameMetadata))
        ELSE UNCHANGED << generatedLineups, initialGeneratedLineups, urlUpdates >>
     /\ UNCHANGED << inputs, gameMetadata, initialRoster, initialBattingOrder,
                     initialPlayerCapabilities, initialPlayerAttendance, initialGameMetadata,
                     hasInitialState, hash, saved, exported, sharedArrays >>

\* ------------------------------------------------------------------ initial state

\* The initial* objects after saveInitialState() in a state with the given
\* current values: the arrays are spliced, the objects merged by Object.assign.
saveInitialState ==
  LET origin(s) ==
        IF s[2] = "initial" /\ slot(s[1], "current", s[3]) \in slots
        THEN slot(s[1], "current", s[3])
        ELSE s
  IN /\ called("saveInitialState", FALSE, "", noHash)
     /\ initialRoster' = roster
     /\ initialBattingOrder' = battingOrder
     /\ initialGeneratedLineups' = ObjectAssign(initialGeneratedLineups, generatedLineups)
     /\ initialPlayerCapabilities' = ObjectAssign(initialPlayerCapabilities, playerCapabilities)
     /\ initialPlayerAttendance' = ObjectAssign(initialPlayerAttendance, playerAttendance)
     /\ initialGameMetadata' = ObjectAssign(initialGameMetadata, gameMetadata)
     /\ hasInitialState' = TRUE
     /\ sharedArrays' =
          regroup(sharedArrays,
                  [ s \in slots \cup slotsOf("capabilities", "initial", playerCapabilities)
                          \cup slotsOf("lineups", "initial", generatedLineups)
                    |-> origin(s) ])
     /\ saved' = currentState
     /\ UNCHANGED << inputs, generatedLineups, gameMetadata, hash, exported, urlUpdates >>

hasStateChanged ==
  IF ~hasInitialState THEN FALSE
  ELSE IF roster # initialRoster THEN TRUE
  ELSE IF battingOrder # initialBattingOrder THEN TRUE
  ELSE IF DOMAIN generatedLineups # DOMAIN initialGeneratedLineups THEN TRUE
  ELSE IF \E key \in DOMAIN generatedLineups :
            generatedLineups[key] # initialGeneratedLineups[key] THEN TRUE
  ELSE IF DOMAIN playerCapabilities # DOMAIN initialPlayerCapabilities THEN TRUE
  ELSE IF \E key \in DOMAIN playerCapabilities :
            playerCapabilities[key] # initialPlayerCapabilities[key] THEN TRUE
  ELSE IF DOMAIN playerAttendance # DOMAIN initialPlayerAttendance THEN TRUE
  ELSE IF \E key \in DOMAIN playerAttendance :
            playerAttendance[key] # initialPlayerAttendance[key] THEN TRUE
  ELSE gameMetadata # initialGameMetadata

\* The three objects are emptied and filled from the initial ones, whose
\* arrays they then hold.
resetToInitialState ==
  LET origin(s) == IF s[2] = "current" THEN slot(s[1], "initial", s[3]) ELSE s
  IN /\ called("resetToInitialState", FALSE, "", noHash)
     /\ IF hasInitialState
        THEN /\ roster' = initialRoster
             /\ battingOrder' = initialBattingOrder
             /\ generatedLineups' = ObjectAssign(clearGeneratedLineups, initialGeneratedLineups)
             /\ playerCapabilities' = ObjectAssign(<< >>, initialPlayerCapabilities)
             /\ playerAttendance' = ObjectAssign(<< >>, initialPlayerAttendance)
             /\ gameMetadata' = ObjectAssign(gameMetadata, initialGameMetadata)
             /\ sharedArrays' =
                  regroup(sharedArrays,
                          [ s \in slotsOf("capabilities", "current", initialPlayerCapabilities)
                              \cup slotsOf("capabilities", "initial", initialPlayerCapabilities)
                              \cup slotsOf("lineups", "current", initialGeneratedLineups)
                              \cup slotsOf("lineups", "initial", initialGeneratedLineups)
                            |-> origin(s) ])
             /\ startUrlUpdate(stateObject(roster', playerCapabilities', generatedLineups',
                                           battingOrder', playerAttendance', gameMetadata'))
        ELSE UNCHANGED << inputs, generatedLineups, gameMetadata, sharedArrays, urlUpdates >>
     /\ UNCHANGED << initialState, hash, saved, exported >>

\* ------------------------------------------------------------------ URL import and export

\* A caller (the share dialog) awaits exportStateToUrl(): the fragment of the
\* current state, or an Error when the schema rejects it.
exportStateToUrl ==
  /\ called("exportStateToUrl", schemaAccepts(currentState), "", noHash)
  /\ exported' = IF schemaAccepts(currentState)
                 THEN [ fragment |-> encodeState(currentState), state |-> currentState ]
                 ELSE exported
  /\ UNCHANGED << inputs, generatedLineups, gameMetadata, initialState, hash, saved,
                  sharedArrays, urlUpdates >>

\* importStateFromUrl(fragment) at the moment its awaits are over: the state
\* is updated from the decoded object and saved as the initial state, or the
\* Error is caught and success = false returned.
importStateFromUrl(fragment) ==
  LET decoded == decodeState(withoutTab(fragment))
      success == decoded.ok /\ schemaAccepts(decoded.data)
      data == decoded.data
      capabilities == ObjectAssign(playerCapabilities, data.playerCapabilities)
      lineupsNow == ObjectAssign(generatedLineups, data.generatedLineups)
      attendance == ObjectAssign(playerAttendance, data.playerAttendance)
      metadata == ObjectAssign(gameMetadata, data.gameMetadata)
      \* the decoded arrays are new; saveInitialState then shares every array
      imported(s) ==
        \/ s[1] = "capabilities" /\ s[3] \in DOMAIN data.playerCapabilities
        \/ s[1] = "lineups" /\ s[3] \in DOMAIN data.generatedLineups
      current(s) ==
        IF s[2] = "initial"
             /\ s[3] \in (IF s[1] = "capabilities" THEN DOMAIN capabilities ELSE DOMAIN lineupsNow)
        THEN slot(s[1], "current", s[3])
        ELSE s
      origin(s) == IF imported(current(s)) THEN fresh(current(s)) ELSE current(s)
  IN /\ called("importStateFromUrl", success, "", fragment)
     /\ IF success
        THEN /\ roster' = data.roster
             /\ playerCapabilities' = capabilities
             /\ generatedLineups' = lineupsNow
             /\ battingOrder' = data.battingOrder
             /\ playerAttendance' = attendance
             /\ gameMetadata' = metadata
             \* saveInitialState()
             /\ initialRoster' = data.roster
             /\ initialBattingOrder' = data.battingOrder
             /\ initialGeneratedLineups' = ObjectAssign(initialGeneratedLineups, lineupsNow)
             /\ initialPlayerCapabilities' = ObjectAssign(initialPlayerCapabilities, capabilities)
             /\ initialPlayerAttendance' = ObjectAssign(initialPlayerAttendance, attendance)
             /\ initialGameMetadata' = ObjectAssign(initialGameMetadata, metadata)
             /\ hasInitialState' = TRUE
             /\ sharedArrays' =
                  regroup(sharedArrays,
                          [ s \in slots \cup slotsOf("capabilities", "current", capabilities)
                                  \cup slotsOf("capabilities", "initial", capabilities)
                                  \cup slotsOf("lineups", "current", lineupsNow)
                                  \cup slotsOf("lineups", "initial", lineupsNow)
                            |-> origin(s) ])
             /\ saved' = stateObject(data.roster, capabilities, lineupsNow, data.battingOrder,
                                     attendance, metadata)
        ELSE UNCHANGED << inputs, generatedLineups, gameMetadata, initialState, sharedArrays,
                          saved >>
     /\ UNCHANGED << hash, exported, urlUpdates >>

\* updateUrlFromState behind its await: the oldest pending call validates and
\* encodes its state object and replaces the URL, keeping the tab parameter
\* of the current hash; when the schema rejects the object the error is
\* caught and the URL stays.  The calls go through the same chain of awaits,
\* so they finish in the order in which they started, and none finishes
\* while a handler runs.
updateUrlFromState ==
  /\ pc = "idle"
  /\ urlUpdates # << >>
  /\ urlUpdates' = Tail(urlUpdates)
  /\ hash' = IF schemaAccepts(Head(urlUpdates))
             THEN [ encodeState(Head(urlUpdates)) EXCEPT !.tab = hash.tab ]
             ELSE hash
  /\ UNCHANGED << inputs, generatedLineups, generator, outcome, calls, gameMetadata,
                  initialState, sharedArrays, result, saved, exported >>

Next ==
  \/ generateDefensiveLineups
  \/ loopTest
  \/ assignPosition
  \/ noEligiblePlayer
  \/ simpleAssignPlayer
  \/ simpleAssignEmpty
  \/ \E player \in Range(roster) : removePlayer(player)
  \/ \E player \in Range(roster) : togglePlayerAttendance(player)
  \/ updateUrlFromState

\* One call of generateDefensiveLineups (or of a roster handler) from a
\* nine-player roster.
Spec == Init /\ [][Next]_vars

\* The control state of a call of generateDefensiveLineups: each of its steps
\* (loopTest, assignPosition, noEligiblePlayer, simpleAssignPlayer,
\* simpleAssignEmpty) changes the program counter, attempts, inning or the
\* position index, and in every state with pc # "idle" one of them is enabled.
control == << pc, attempts, inning, posIdx >>

\* The running call takes a step.
callProgress ==
  /\ pc # "idle"
  /\ pc' \in {"idle", "loop", "fill", "simple"}
  /\ attempts' \in 0..maxAttempts
  /\ inning' \in 0..(INNING_COUNT - 1)
  /\ posIdx' \in DOMAIN POSITIONS

\* JavaScript runs a called function to completion: a running call does not
\* stop between two of its steps.
FairSpec == Init /\ [][Next]_vars /\ WF_control(callProgress)

\* The retry loop of generateDefensiveLineups alone, on rosters that admit a
\* valid lineup; the behaviour ends where generateSimpleLineups would start.
InitAttempts == \E s \in AttemptScenarios : InitFrom(s, << >>, MaxCalls - 1)

NextAttempts ==
  \/ generateDefensiveLineups
  \/ loopTest
  \/ assignPosition
  \/ noEligiblePlayer
  \/ updateUrlFromState

SpecAttempts == InitAttempts /\ [][NextAttempts]_vars

\* Sessions of up to MaxCalls handler invocations on a roster of specialists.
InitSession == \E s \in SessionScenarios : InitFrom(s, << >>, 0)

SpecSession == InitSession /\ [][Next]_vars

\* The lineups handed to validateLineup: player A pitches, catches, stands in
\* left field or sits (standsAt[i] = "") in each inning, player B is at
\* 1st Base in the first k innings and sits in the others.
lineupOf(standsAt, k) ==
  [ position \in PositionSet |->
      [ i \in 1..INNING_COUNT |->
          IF position = standsAt[i] THEN "A"
          ELSE IF position = "1st Base" /\ i <= k THEN "B"
          ELSE "" ] ]

ValidateScenario ==
  [ roster |-> << "A", "B" >>,
    capabilities |-> [ player \in {"A", "B"} |->
                        IF player = "A" THEN << "Pitcher", "Catcher", "Left Field" >>
                        ELSE << "1st Base" >> ],
    attendance |-> allAttending(<< "A", "B" >>) ]

InitValidate ==
  \E standsAt \in [ 1..INNING_COUNT -> {"Pitcher", "Catcher", "Left Field", ""} ] :
    \E k \in 0..INNING_COUNT :
      InitFrom(ValidateScenario, lineupOf(standsAt, k), MaxCalls - 1)

NextValidate == validateGeneratedLineups

\* validateLineup applied to each of these lineups.
SpecValidate == InitValidate /\ [][NextValidate]_vars

\* ------------------------------------------------------------------ properties

innings == 0..(INNING_COUNT - 1)

\* The rows of lineup l in which inning i shows the player.
rowsShowing(l, i, player) == { key \in DOMAIN l : cell(l, key, i) = player }

\* How often the row shows the player.
timesIn(row, player) == Cardinality({ i \in DOMAIN row : row[i] = player })

\* The innings (positions) the player spends in an infield row of l.
infieldInningsOf(l, player) ==
  Cardinality({ at \in Range(getInfieldPositions) \X innings : cell(l, at[1], at[2]) = player })

\* The innings in which no position row of l shows the player.
benchInningsOf(l, player) ==
  Cardinality({ i \in innings : \A position \in PositionSet : cell(l, position, i) # player })

hasReturned == pc = "idle" /\ outcome \in {"valid", "best", "fallback"}

\* C1: whenever generateLineupsWithSittingAssignment returns a lineup, every
\* attending player appears exactly once in each inning across the nine
\* position rows and the 'Sitting k' rows, and no other name appears.
C1_InningPartition ==
  returned = "lineup" =>
    \A i \in innings :
      /\ \A player \in Range(attending) : Cardinality(rowsShowing(lineups, i, player)) = 1
      /\ \A key \in DOMAIN lineups : cell(lineups, key, i) \in Range(attending) \cup {""}

\* A returned lineup of ten attending players: A sits in the first inning.
C1_Witness ==
  /\ returned = "lineup"
  /\ Len(attending) = 10
  /\ cell(lineups, SittingKey(1), 0) = "A"

\* C2: generateDefensiveLineups terminates from every roster, also with an
\* attending player without capabilities or fewer than nine attending
\* players: it never makes more than maxAttempts attempts, and a running call
\* returns, leaving all nine position keys in generatedLineups.
C2_Terminates ==
  /\ [](attempts <= maxAttempts)
  /\ [](pc # "idle" => <>(hasReturned /\ PositionSet \subseteq DOMAIN generatedLineups))

\* The call has returned after maxAttempts attempts with eight attending players.
C2_Witness ==
  /\ hasReturned
  /\ attempts = maxAttempts
  /\ Len(attending) = 8
  /\ PositionSet \subseteq DOMAIN generatedLineups

\* The number of errors validateLineup reports for a candidate.
errorCount(l) == Len(validateLineup(l, roster, playerAttendance).errors)

\* The earliest of the candidates with the fewest errors.
bestCandidate ==
  candidates[CHOOSE i \in DOMAIN candidates :
               /\ \A j \in DOMAIN candidates : errorCount(candidates[i]) <= errorCount(candidates[j])
               /\ \A j \in 1..(i - 1) : errorCount(candidates[j]) > errorCount(candidates[i])]

\* C3: when the attempts end without a valid lineup but a complete candidate
\* was produced, the committed lineup is the candidate with the fewest errors
\* (the earliest on a tie) and generateSimpleLineups is not used.
C3_BestCandidateCommitted ==
  candidates # << >> =>
    /\ pc # "simple"
    /\ outcome # "fallback"
    /\ (hasReturned /\ outcome # "valid") => (outcome = "best" /\ committed = bestCandidate)

\* C4: after generateDefensiveLineups returns, generatedLineups holds exactly
\* the keys and rows of the lineup this call produced.
C4_LineupReplaced == hasReturned => generatedLineups = committed

\* No row of lineup l shows a player more than 3 times.
positionCapHolds(l) ==
  \A key \in DOMAIN l \cap PositionSet :
    \A player \in Range(l[key]) \ {""} : timesIn(l[key], player) <= 3

\* C5: no player is assigned the same position in more than 3 innings, in
\* the lineup a generator is building and in the lineup the call commits.
C5_PositionCap == positionCapHolds(lineups) /\ positionCapHolds(committed)

\* The fallback lineup is committed and shows a player 3 times in one row.
C5_Witness ==
  /\ hasReturned
  /\ outcome = "fallback"
  /\ \E position \in PositionSet : \E player \in Range(attending) :
       timesIn(committed[position], player) = 3

\* The innings in which the row shows a player have no gap.
runsAreConsecutive(row) ==
  \A i \in DOMAIN row : \A j \in DOMAIN row :
    (i < j /\ row[i] # "" /\ row[i] = row[j]) => \A k \in i..j : row[k] = row[i]

batteryRunsConsecutive(l) ==
  \A position \in {"Pitcher", "Catcher"} \cap DOMAIN l : runsAreConsecutive(l[position])

\* C6: in the lineup either generator builds, returns or writes, a player
\* who pitches in two or more innings pitches in consecutive innings, and
\* the same holds for the catcher.
C6_ConsecutiveBattery == batteryRunsConsecutive(lineups) /\ batteryRunsConsecutive(committed)

\* A returned lineup in which a player pitches in two or more innings.
C6_Witness ==
  /\ returned = "lineup"
  /\ \E player \in Range(attending) : timesIn(lineups["Pitcher"], player) >= 2

\* The innings before inning i in which the row shows the player.
earlierInnings(l, position, player, i) ==
  Cardinality({ j \in 0..(i - 1) : cell(l, position, j) = player })

\* C7: in the lineup being generated the catcher of an inning has pitched
\* in fewer than 2 earlier innings, and the pitcher of an inning has caught
\* in fewer than 4 earlier innings.
C7_BatteryExclusion ==
  \A i \in innings :
    /\ cell(lineups, "Catcher", i) # "" =>
         earlierInnings(lineups, "Pitcher", cell(lineups, "Catcher", i), i) < 2
    /\ cell(lineups, "Pitcher", i) # "" =>
         earlierInnings(lineups, "Catcher", cell(lineups, "Pitcher", i), i) < 4

\* The catcher is being chosen, and an available player who is capable of
\* catching and has not caught yet is not eligible after 2 innings as pitcher.
C7_Witness ==
  /\ pc \in {"fill", "simple"}
  /\ POSITIONS[posIdx] = "Catcher"
  /\ \E player \in Range(availablePlayers) :
       /\ canPlayerPlayPosition(playerCapabilities, player, "Catcher")
       /\ timesIn(lineups["Catcher"], player) = 0
       /\ timesIn(lineups["Pitcher"], player) >= 2
       /\ ~includes(eligiblePlayers, player)

validated == outcome = "validated" /\ ~validation.threw

\* The largest difference of bench innings between two attending players.
benchSpreadAtMost(l, n) ==
  \A p \in Range(attending) : \A q \in Range(attending) :
    benchInningsOf(l, p) - benchInningsOf(l, q) <= n

\* C8: validateLineup returns isValid = true exactly when its error list is
\* empty, and then the bench innings of the attending players differ by at
\* most 1 and every attending player has at least 2 infield innings.
C8_ValidMeansFair ==
  validated =>
    /\ validation.isValid <=> (validation.errors = << >>)
    /\ (validation.isValid /\ attending # << >>) =>
         /\ benchSpreadAtMost(generatedLineups, 1)
         /\ \A player \in Range(attending) : infieldInningsOf(generatedLineups, player) >= 2

\* A lineup found valid in which a player sits one inning more than another
\* and has exactly 2 infield innings.
C8_Witness ==
  /\ validated
  /\ validation.isValid
  /\ infieldInningsOf(generatedLineups, "A") = 2
  /\ benchInningsOf(generatedLineups, "A") = benchInningsOf(generatedLineups, "B") + 1

\* Some attending player fills one position in more than 3 innings.
capExceeded(l) ==
  \E player \in Range(attending) : \E position \in PositionSet :
    Cardinality({ i \in innings : cell(l, position, i) = player }) > 3

\* Some attending player catches after 2 or more innings as pitcher.
catchesAfterPitching(l) ==
  \E player \in Range(attending) : \E i \in innings :
    cell(l, "Catcher", i) = player /\ earlierInnings(l, "Pitcher", player, i) >= 2

\* Some attending player pitches after 4 or more innings as catcher.
pitchesAfterCatching(l) ==
  \E player \in Range(attending) : \E i \in innings :
    cell(l, "Pitcher", i) = player /\ earlierInnings(l, "Catcher", player, i) >= 4

\* Some player is pitcher, or catcher, in innings with a gap between them.
batteryGap(l) == ~batteryRunsConsecutive(l)

C10_SixEntries ==
  hasReturned => \A key \in DOMAIN generatedLineups : Len(generatedLineups[key]) = INNING_COUNT

\* ------------------------------------------------------------------ C11

\* The longest roster handed to generateFairSittingAssignment.
MaxRoster == 12

SittingNames == Names \o << "K", "L", "M", "N" >>

\* A roster of up to MaxRoster players, any of them marked absent.
InitSitting ==
  \E n \in 0..MaxRoster :
    \E att \in [ Range(SubSeq(SittingNames, 1, n)) -> BOOLEAN ] :
      InitFrom([ roster |-> SubSeq(SittingNames, 1, n), capabilities |-> << >>,
                 attendance |-> att ],
               << >>, MaxCalls - 1)

\* const sittingAssignment = generateFairSittingAssignment(), as
\* generateLineupsWithSittingAssignment calls it.
fairSittingCall ==
  LET plan == generateFairSittingAssignment(roster, playerAttendance) IN
  /\ pc = "idle"
  /\ calls < MaxCalls
  /\ calls' = calls + 1
  /\ sittingAssignment' = plan.sittingAssignment
  /\ result' = returns("generateFairSittingAssignment", plan.ok, "", noHash)
  /\ UNCHANGED << inputs, generatedLineups, session, sharedArrays, urlUpdates, pc, attempts,
                  bestScore, bestLineups, lineups, playerStats, inning, posIdx,
                  availablePlayers, returned, validation, outcome, committed, candidates >>

\* generateFairSittingAssignment applied to each of these rosters.
SpecSitting == InitSitting /\ [][fairSittingCall]_vars

\* The innings of the plan that list the player.
sitsOf(plan, player) == Cardinality({ i \in DOMAIN plan : includes(plan[i], player) })

planReturned == result.of = "generateFairSittingAssignment" /\ result.value

\* C11: whenever generateFairSittingAssignment returns an assignment for P
\* attending players, each of the INNING_COUNT innings lists exactly
\* max(0, P - 9) distinct attending players, and the numbers of innings sat
\* by any two attending players differ by at most 1.
C11_FairSitting ==
  planReturned =>
    /\ Len(sittingAssignment) = INNING_COUNT
    /\ \A i \in DOMAIN sittingAssignment :
         /\ Len(sittingAssignment[i]) = Max2(0, Len(attending) - 9)
         /\ Cardinality(Range(sittingAssignment[i])) = Len(sittingAssignment[i])
         /\ Range(sittingAssignment[i]) \subseteq Range(attending)
    /\ \A a, b \in Range(attending) :
         sitsOf(sittingAssignment, a) - sitsOf(sittingAssignment, b) <= 1

\* A plan for eleven attending players of a roster of twelve: two sit in
\* every inning, player A twice and player K once.
C11_Witness ==
  /\ planReturned
  /\ Len(attending) = 11
  /\ Len(roster) = 12
  /\ \A i \in DOMAIN sittingAssignment : Len(sittingAssignment[i]) = 2
  /\ sitsOf(sittingAssignment, "A") = 2
  /\ sitsOf(sittingAssignment, "K") = 1

\* ------------------------------------------------------------------ C20

\* The largest position count handed to canPlayerPlayPositionInSpecificInning.
MaxCount == 4

\* The positions asked for: the battery and one other position.
AskedPositions == { 1, 2, 3 }

\* Player A with any counts at the three positions, capable of the position
\* asked for or not, and a row that shows A in any set of innings.
InitEligibility ==
  \E k \in AskedPositions : \E i \in 0..(INNING_COUNT - 1) :
    \E counts \in [ { POSITIONS[j] : j \in AskedPositions } -> 0..MaxCount ] :
      \E shown \in SUBSET (0..(INNING_COUNT - 1)) : \E capable \in BOOLEAN :
        InitCall([ roster |-> << "A", "B" >>,
                   capabilities |-> [ p \in {"A"} |-> IF capable THEN << POSITIONS[k] >>
                                                      ELSE << "Right Field" >> ],
                   attendance |-> allAttending(<< "A", "B" >>) ],
                 << >>, MaxCalls - 1,
                 [ position \in { POSITIONS[k] } |->
                     [ j \in 1..INNING_COUNT |-> IF j - 1 \in shown THEN "A" ELSE "B" ] ],
                 [ p \in {"A"} |->
                     [ emptyStats EXCEPT
                         !.positionCounts =
                           [ position \in PositionSet |->
                               IF position \in DOMAIN counts THEN counts[position] ELSE 0 ] ] ],
                 i, k)

\* canPlayerPlayPositionInSpecificInning(player, position, inning, playerStats,
\* lineups), as the generators call it.
eligibilityCall ==
  /\ pc = "idle"
  /\ calls < MaxCalls
  /\ calls' = calls + 1
  /\ result' = returns("canPlayerPlayPositionInSpecificInning",
                       canPlayerPlayPositionInSpecificInning(playerCapabilities, "A",
                         POSITIONS[posIdx], inning, playerStats, lineups),
                       "A", noHash)
  /\ UNCHANGED << inputs, generatedLineups, session, sharedArrays, urlUpdates, generator,
                  outcome >>

\* canPlayerPlayPositionInSpecificInning applied to each of these inputs.
SpecEligibility == InitEligibility /\ [][eligibilityCall]_vars

asked == POSITIONS[posIdx]

countOfA(position) == playerStats["A"].positionCounts[position]

\* The innings in which the row of the position asked for shows player A.
shownInnings == { i \in innings : cell(lineups, asked, i) = "A" }

followsLastInning == \E i \in shownInnings : inning = i + 1 /\ \A j \in shownInnings : j <= i

basicRules ==
  /\ includes(playerCapabilities["A"], asked)
  /\ countOfA(asked) < 3
  /\ ~(asked = "Pitcher" /\ countOfA("Catcher") >= 4)
  /\ ~(asked = "Catcher" /\ countOfA("Pitcher") >= 2)

eligibilityReturned == result.of = "canPlayerPlayPositionInSpecificInning"

InitValidateTwice ==
  \E standsAt \in [ 1..INNING_COUNT -> {"Pitcher", "Catcher", "Left Field", ""} ] :
    \E k \in 0..INNING_COUNT :
      InitFrom(ValidateScenario, lineupOf(standsAt, k), MaxCalls - 2)

\* validateLineup applied twice to each of these lineups.
SpecValidateTwice == InitValidateTwice /\ [][NextValidate]_vars

NameInputs == { "", " ", "A", " A ", "B ", "C" }

PlayerNames == { "A", "B", "C" }

emptyScenario == [ roster |-> << >>, capabilities |-> << >>, attendance |-> << >> ]

\* Players A and B, a pitcher and a catcher, in the batting order A, B.
batteryScenario ==
  [ roster |-> << "A", "B" >>,
    capabilities |-> [ player \in {"A", "B"} |->
                        IF player = "A" THEN << "Pitcher" >> ELSE << "Catcher" >> ],
    attendance |-> allAttending(<< "A", "B" >>) ]

InitRoster == \E s \in { emptyScenario, batteryScenario } : InitFrom(s, << >>, 0)

NextRoster ==
  \/ \E playerName \in NameInputs : addPlayer(playerName)
  \/ \E player \in PlayerNames : removePlayer(player)
  \/ \E oldName \in PlayerNames : \E newName \in NameInputs : updatePlayerName(oldName, newName)
  \/ updateUrlFromState

\* The roster handlers called in any order.
SpecRoster == InitRoster /\ [][NextRoster]_vars

RECURSIVE withoutBlanks(_)
\* The name without its blanks.
withoutBlanks(s) ==
  IF Len(s) = 0 THEN s
  ELSE IF SubSeq(s, 1, 1) = " " THEN withoutBlanks(SubSeq(s, 2, Len(s)))
  ELSE SubSeq(s, 1, 1) \o withoutBlanks(SubSeq(s, 2, Len(s)))

rosterWellFormed ==
  /\ Cardinality(Range(roster)) = Len(roster)
  /\ \A i \in DOMAIN roster : withoutBlanks(roster[i]) # ""

\* C14: after any sequence of addPlayer, removePlayer and updatePlayerName
\* calls the roster contains no duplicate name and no empty or
\* whitespace-only name; addPlayer and updatePlayerName return false and
\* leave the roster unchanged when the trimmed new name is empty or already
\* in the roster.
C14_RosterNames ==
  /\ []rosterWellFormed
  /\ [][(/\ calls' = calls + 1
         /\ result'.of \in {"addPlayer", "updatePlayerName"}
         /\ \/ withoutBlanks(result'.player) = ""
            \/ includes(roster, withoutBlanks(result'.player)))
          => (~result'.value /\ roster' = roster)]_vars

\* updatePlayerName('B', ' A ') has returned false with A in the roster.
C14_Witness ==
  /\ result.of = "updatePlayerName"
  /\ result.player = " A "
  /\ ~result.value
  /\ roster = << "A", "B" >>
  /\ calls = 3

\* C15: after removePlayer(p) for a player p in the roster, p is absent from
\* the roster, the batting order and the keys of the capabilities and
\* attendance maps, while the entries of every other player in those four
\* structures are unchanged.
C15_RemoveFrame ==
  [][(/\ calls' = calls + 1
      /\ result'.of = "removePlayer"
      /\ includes(roster, result'.player))
       => LET p == result'.player IN
          /\ roster' = SelectSeq(roster, LAMBDA q : q # p)
          /\ battingOrder' = SelectSeq(battingOrder, LAMBDA q : q # p)
          /\ DOMAIN playerCapabilities' = (DOMAIN playerCapabilities) \ {p}
          /\ \A q \in DOMAIN playerCapabilities' : playerCapabilities'[q] = playerCapabilities[q]
          /\ DOMAIN playerAttendance' = (DOMAIN playerAttendance) \ {p}
          /\ \A q \in DOMAIN playerAttendance' : playerAttendance'[q] = playerAttendance[q]]_vars

\* removePlayer('A') has left C, renamed from B before, in all four structures.
C15_Witness ==
  /\ result.of = "removePlayer"
  /\ result.player = "A"
  /\ roster = << "C" >>
  /\ battingOrder = << "C" >>
  /\ DOMAIN playerCapabilities = {"C"}
  /\ DOMAIN playerAttendance = {"C"}

\* ------------------------------------------------------------------ C16, C17, C18

\* Players A and B: A pitches and plays 1st Base, B catches and plays 2nd Base.
editScenario ==
  [ roster |-> << "A", "B" >>,
    capabilities |-> [ player \in {"A", "B"} |->
                        IF player = "A" THEN << "Pitcher", "1st Base" >>
                        ELSE << "Catcher", "2nd Base" >> ],
    attendance |-> allAttending(<< "A", "B" >>) ]

\* The lineup generateDefensiveLineups leaves for these two players.
editLineup ==
  [ position \in PositionSet |->
      [ i \in 1..INNING_COUNT |->
          IF position = "Pitcher" /\ i <= 3 THEN "A"
          ELSE IF position = "Catcher" /\ i <= 3 THEN "B"
          ELSE IF position = "1st Base" /\ i > 3 THEN "A"
          ELSE IF position = "2nd Base" /\ i > 3 THEN "B"
          ELSE "" ] ]

InitEdit == \E g \in { << >>, editLineup } : InitFrom(editScenario, g, 0)

\* The fragments handed to importStateFromUrl: the fragment exported last,
\* with and without a tab parameter, the fragment in the URL, and that one
\* cut short, of another version, with another payload under the same
\* checksum, with a payload of another version, and with an empty roster.
ImportInputs ==
  { exported.fragment,
    [ exported.fragment EXCEPT !.tab = "batting" ],
    hash,
    [ hash EXCEPT !.wellFormed = FALSE ],
    [ hash EXCEPT !.version = SERIALIZATION_VERSION + 1 ],
    [ hash EXCEPT !.compressed.data.roster = << "Z" >> ],
    [ hash EXCEPT !.compressed.v = SERIALIZATION_VERSION + 1,
                  !.checksum = crc32([ hash.compressed EXCEPT !.v = SERIALIZATION_VERSION + 1 ]) ],
    encodeState([ currentState EXCEPT !.roster = << >> ]) }

\* swapPlayersInInning is called for players that one row shows in the inning.
shownOnce(player, i) ==
  Cardinality({ key \in DOMAIN generatedLineups : cell(generatedLineups, key, i) = player }) = 1

NextEdit ==
  \/ generateDefensiveLineups
  \/ loopTest
  \/ assignPosition
  \/ noEligiblePlayer
  \/ simpleAssignPlayer
  \/ simpleAssignEmpty
  \/ addPlayer("C")
  \/ \E player \in Range(roster) : removePlayer(player)
  \/ updatePlayerName("B", "C")
  \/ \E position \in {"Pitcher", "Catcher"} : togglePlayerCapability("A", position)
  \/ togglePlayerAttendance("B")
  \/ randomizeBattingOrder
  \/ updateGameMetadata([ homeTeam |-> "Cubs" ])
  \/ shownOnce("A", 0) /\ shownOnce("B", 0) /\ swapPlayersInInning("Pitcher", 0, "A", "B")
  \/ saveInitialState
  \/ resetToInitialState
  \/ exportStateToUrl
  \/ \E fragment \in ImportInputs : importStateFromUrl(fragment)
  \/ updateUrlFromState

\* The handlers called in any order from a roster of two players.
SpecEdit == InitEdit /\ [][NextEdit]_vars

imported == result.of = "importStateFromUrl"

\* C16: importing with importStateFromUrl the fragment exportStateToUrl
\* produced makes roster, capabilities, generated lineups, batting order,
\* attendance and game metadata equal to their values at export time,
\* whatever the state is at the moment of the import.
C16_ImportRestoresExport ==
  (/\ imported
   /\ exported.fragment.wellFormed
   /\ withoutTab(result.hash) = exported.fragment)
    => (result.value /\ currentState = exported.state)

\* The fragment cannot be decoded: bad format, unsupported version, checksum
\* mismatch, or data failing the schema.
undecodable(fragment) ==
  \/ ~fragment.wellFormed
  \/ fragment.version # SERIALIZATION_VERSION
  \/ fragment.checksum.of # fragment.compressed
  \/ fragment.compressed.v # SERIALIZATION_VERSION
  \/ Len(fragment.compressed.data.roster) = 0

\* C17: when importStateFromUrl is given a fragment that cannot be decoded
\* it returns success = false and leaves roster, batting order,
\* capabilities, attendance, generated lineups, game metadata and the saved
\* initial state unchanged.
C17_FailedImportKeepsState ==
  [][(calls' = calls + 1 /\ result'.of = "importStateFromUrl" /\ undecodable(result'.hash))
       => /\ ~result'.value
          /\ currentState' = currentState
          /\ initialState' = initialState]_vars

\* success = false for a fragment whose payload does not match its checksum,
\* with a saved initial state and lineups in place.
C17_Witness ==
  /\ imported
  /\ ~result.value
  /\ result.hash.wellFormed
  /\ result.hash.version = SERIALIZATION_VERSION
  /\ result.hash.checksum.of # result.hash.compressed
  /\ hasInitialState
  /\ generatedLineups = editLineup

\* C18: after saveInitialState followed by any sequence of state changes,
\* resetToInitialState restores roster, batting order, capabilities,
\* attendance, generated lineups and game metadata to the values they had
\* when the state was saved, and hasStateChanged() then returns false.
C18_ResetRestoresSaved ==
  (result.of = "resetToInitialState" /\ hasInitialState)
    => (currentState = saved /\ ~hasStateChanged)

\* ------------------------------------------------------------------ C19

\* C19: after any state-changing operation, once every asynchronous URL
\* update started by the operations has finished, the URL fragment decodes
\* to the current roster, capabilities, generated lineups, batting order,
\* attendance and game metadata.
C19_UrlFollowsState ==
  (pc = "idle" /\ urlUpdates = << >> /\ hash.wellFormed)
    => /\ decodeState(withoutTab(hash)).ok
       /\ decodeState(withoutTab(hash)).data = currentState

\* ------------------------------------------------------------------ C12

\* Nine attending players, each capable of all nine positions, and no lineup.
InitAllCapable ==
  InitFrom([ roster |-> nine, capabilities |-> [ player \in Range(nine) |-> POSITIONS ],
             attendance |-> allAttending(nine) ],
           << >>, MaxCalls - 1)

\* The player selected for the position in this step.
selectedPlayer == lineups'[POSITIONS[posIdx]][inning + 1]

\* The outcomes of Math.random() followed here: 0 (the first eligible
\* player) in every attempt and at the infield positions of
\* generateSimpleLineups, any value at its outfield positions.
simpleChoices ==
  IF isInfieldPosition(POSITIONS[posIdx]) THEN { eligiblePlayers[1] }
  ELSE Range(eligiblePlayers)

\* Under these outcomes every attempt returns a lineup, so that
\* generateLineupsWithSittingAssignment never returns null.
NextAllCapable ==
  \/ generateDefensiveLineups
  \/ loopTest
  \/ assignPosition /\ selectedPlayer = eligiblePlayers[1]
  \/ simpleAssignPlayer /\ selectedPlayer \in simpleChoices
  \/ simpleAssignEmpty
  \/ updateUrlFromState

\* generateDefensiveLineups for nine players who can play everywhere.
SpecAllCapable == InitAllCapable /\ [][NextAllCapable]_vars

\* C12: with exactly 9 attending players each capable of all nine positions,
\* the lineup generateDefensiveLineups leaves in generatedLineups, starting
\* from no lineup, has no 'Sitting' key, and every position row has
\* INNING_COUNT entries none of which is the empty string.
C12_FullLineup ==
  hasReturned =>
    /\ DOMAIN generatedLineups = PositionSet
    /\ \A position \in PositionSet :
         /\ Len(generatedLineups[position]) = INNING_COUNT
         /\ \A i \in innings : cell(generatedLineups, position, i) # ""

\* ------------------------------------------------------------------ C21

\* A lineup with the row of Pitcher or of Catcher alone, which shows A, B, C
\* or nobody in each inning.
InitConsecutive ==
  \E k \in { 1, 2 } : \E row \in [ 1..INNING_COUNT -> { "A", "B", "C", "" } ] :
    InitCall([ roster |-> << "A", "B", "C" >>, capabilities |-> << >>,
               attendance |-> allAttending(<< "A", "B", "C" >>) ],
             [ position \in { POSITIONS[k] } |-> row ], MaxCalls - 1, << >>, << >>, 0, k)

\* validateConsecutivePositionAssignments(lineups, position), as validateLineup
\* and the tests call it.
consecutiveCall ==
  LET errors == validateConsecutivePositionAssignments(generatedLineups, POSITIONS[posIdx]) IN
  /\ pc = "idle"
  /\ calls < MaxCalls
  /\ calls' = calls + 1
  /\ validation' = [ threw |-> FALSE, isValid |-> (Len(errors) = 0), errors |-> errors ]
  /\ result' = returns("validateConsecutivePositionAssignments", Len(errors) = 0, "", noHash)
  /\ UNCHANGED << inputs, generatedLineups, session, sharedArrays, urlUpdates, pc, attempts,
                  bestScore, bestLineups, locals, returned, outcome, committed, candidates >>

\* validateConsecutivePositionAssignments applied to each of these rows.
SpecConsecutive == InitConsecutive /\ [][consecutiveCall]_vars

\* The innings (0-based) in which the row handed over shows the player.
inningsAt(player) ==
  { i \in innings : cell(generatedLineups, POSITIONS[posIdx], i) = player }

\* The players in two or more innings that do not form one run.
playersWithGap ==
  { player \in { "A", "B", "C" } :
      /\ Cardinality(inningsAt(player)) >= 2
      /\ SetMax(inningsAt(player)) - SetMin(inningsAt(player)) + 1
           # Cardinality(inningsAt(player)) }

consecutiveReturned == result.of = "validateConsecutivePositionAssignments"

\* C21: validateConsecutivePositionAssignments returns exactly one message
\* for each player who occupies the position in two or more innings that do
\* not form one run of consecutive innings and no message for any other
\* player; the messages are ordered by the players' first appearance in the
\* row and list that player's innings 1-based in ascending order.
C21_OneMessagePerGap ==
  consecutiveReturned =>
    LET errors == validation.errors IN
    /\ Len(errors) = Cardinality(playersWithGap)
    /\ { errors[i].player : i \in DOMAIN errors } = playersWithGap
    /\ \A i \in DOMAIN errors :
         /\ errors[i].kind = "non-consecutive"
         /\ errors[i].position = POSITIONS[posIdx]
         /\ Len(errors[i].innings) = Cardinality(inningsAt(errors[i].player))
         /\ Range(errors[i].innings) = { n + 1 : n \in inningsAt(errors[i].player) }
         /\ \A m \in 2..Len(errors[i].innings) : errors[i].innings[m - 1] < errors[i].innings[m]
         /\ \A j \in DOMAIN errors :
              i < j => SetMin(inningsAt(errors[i].player)) < SetMin(inningsAt(errors[j].player))

\* Pitcher = [A, A, B, A, B, B]: A with innings 1, 2, 4, then B with 3, 5, 6.
C21_Witness ==
  /\ consecutiveReturned
  /\ generatedLineups = [ position \in {"Pitcher"} |-> << "A", "A", "B", "A", "B", "B" >> ]
  /\ Len(validation.errors) = 2
  /\ validation.errors[1].player = "A"
  /\ validation.errors[1].innings = << 1, 2, 4 >>
  /\ validation.errors[2].player = "B"
  /\ validation.errors[2].innings = << 3, 5, 6 >>

\* ------------------------------------------------------------------ C22

\* The available players with the position among their capabilities.
capableAvailable ==
  { player \in Range(availablePlayers) :
      /\ player \in DOMAIN playerCapabilities
      /\ includes(playerCapabilities[player], POSITIONS[posIdx]) }

\* The league rules for the position at hand, read from the rows built so far.
withinRules(player) ==
  LET position == POSITIONS[posIdx]
      shown == { i \in innings : cell(lineups, position, i) = player }
  IN /\ timesIn(lineups[position], player) < 3
     /\ ~(position = "Pitcher" /\ timesIn(lineups["Catcher"], player) >= 4)
     /\ ~(position = "Catcher" /\ timesIn(lineups["Pitcher"], player) >= 2)
     /\ position \in {"Pitcher", "Catcher"} => (shown = {} \/ inning - 1 \in shown)

\* C22 as stated: in generateSimpleLineups a position receives '' only when
\* no attending player still unplaced in the inning has the position among
\* their capabilities; the cap and the consecutive-run rule are ignored.
C22_EmptyOnlyWhenNoneCapable ==
  [][pc = "simple" => (selectedPlayer = "" <=> capableAvailable = {})]_vars

\* C22 amended: in generateSimpleLineups a position receives a player who is
\* still unplaced in the inning, has the position among their capabilities
\* and is within the league rules for it; it receives '' exactly when no
\* such player is left.
C22_EmptyWhenNoneEligible ==
  [][pc = "simple" =>
       /\ selectedPlayer = "" <=> { player \in capableAvailable : withinRules(player) } = {}
       /\ selectedPlayer # "" => (selectedPlayer \in capableAvailable /\ withinRules(selectedPlayer))
    ]_vars

\* The fallback lineup shows '' at a position in an inning in which an
\* attending player capable of the position sits.
C22_Witness ==
  /\ outcome = "fallback"
  /\ \E position \in PositionSet : \E i \in innings :
       /\ cell(generatedLineups, position, i) = ""
       /\ \E player \in Range(attending) :
            /\ player \in DOMAIN playerCapabilities
            /\ includes(playerCapabilities[player], position)
            /\ rowsShowing(generatedLineups, i, player) \cap PositionSet = {}

\* ------------------------------------------------------------------ C23

\* The innings before inning i in which the plan lists the player.
sitsBefore(plan, player, i) ==
  Cardinality({ j \in 0..(i - 1) : includes(plan[j + 1], player) })

\* floor(INNING_COUNT * max(0, P - 9) / P) for P attending players.
sittingTarget ==
  IF Len(attending) > 0
  THEN (INNING_COUNT * Max2(0, Len(attending) - 9)) \div Len(attending)
  ELSE 0

\* C23: generateFairSittingAssignment never returns null: for every number P
\* of attending players, in each inning at least max(0, P - 9) players have
\* sat fewer than target + 1 innings so far, and after the last inning the
\* largest and the smallest sit count differ by at most 1.
C23_NeverFails ==
  result.of = "generateFairSittingAssignment" =>
    /\ result.value
    /\ Len(sittingAssignment) = INNING_COUNT
    /\ \A i \in innings :
         Cardinality({ player \in Range(attending) :
                         sitsBefore(sittingAssignment, player, i) < sittingTarget + 1 })
           >= Max2(0, Len(attending) - 9)
    /\ \A a, b \in Range(attending) :
         sitsBefore(sittingAssignment, a, INNING_COUNT)
           - sitsBefore(sittingAssignment, b, INNING_COUNT) <= 1

\* Ten attending players, target 0: six of them sit once and four never, so
\* that in the last inning five players have already reached target + 1.
C23_Witness ==
  /\ result.of = "generateFairSittingAssignment"
  /\ result.value
  /\ Len(attending) = 10
  /\ sittingTarget = 0
  /\ Cardinality({ player \in Range(attending) :
                     sitsBefore(sittingAssignment, player, INNING_COUNT - 1) = 1 }) = 5
  /\ Cardinality({ player \in Range(attending) :
                     sitsBefore(sittingAssignment, player, INNING_COUNT) = 0 }) = 4

\* ------------------------------------------------------------------ C24

oneRun(l, position, player) ==
  LET shown == { i \in innings : cell(l, position, i) = player }
  IN \A i, j \in shown : \A k \in i..j : k \in shown

\* C25: for every lineup returned by generateLineupsWithSittingAssignment
\* from a plan of generateFairSittingAssignment, validateLineup reports
\* nothing but infield-minimum messages: each attending player's bench
\* innings are the innings in which the plan makes them sit, bench innings
\* differ by at most 1, and the Pitcher and Catcher rows show each player in
\* one run of innings.
C25_OnlyInfieldMessages ==
  returned = "lineup" =>
    /\ ~validation.threw
    /\ \A k \in DOMAIN validation.errors : validation.errors[k].kind = "infield"
    /\ \A player \in Range(attending) :
         /\ benchCount(lineups, player) = sitsOf(sittingAssignment, player)
         /\ \A i \in innings :
              includes(sittingAssignment[i + 1], player)
                <=> rowsShowing(lineups, i, player) \cap PositionSet = {}
         /\ oneRun(lineups, "Pitcher", player)
         /\ oneRun(lineups, "Catcher", player)
    /\ \A a, b \in Range(attending) : benchCount(lineups, a) - benchCount(lineups, b) <= 1

\* A lineup returned for ten attending players: infield-minimum messages
\* are its only errors, and player A sits in the first inning only, as planned.
C25_Witness ==
  /\ returned = "lineup"
  /\ Len(attending) = 10
  /\ sittingAssignment[1] = << "A" >>
  /\ benchCount(lineups, "A") = 1
  /\ rowsShowing(lineups, 0, "A") = { SittingKey(1) }

\* ------------------------------------------------------------------ C26

\* The positions left '' in inning i of lineup l.
emptyPositions(l, i) == { position \in PositionSet : cell(l, position, i) = "" }

\* C26: with fewer than 9 attending players generateLineupsWithSittingAssignment
\* returns null on every attempt, generateDefensiveLineups finishes through
\* generateSimpleLineups, and the committed lineup has at least 9 - P
\* empty-string position entries in every inning (P attending players).
C26_TooFewPlayers ==
  Len(attending) < 9 =>
    /\ returned # "lineup"
    /\ candidates = << >>
    /\ (pc = "loop" /\ attempts >= 1) => returned = "null"
    /\ outcome \in { "none", "fallback" }
    /\ hasReturned =>
         /\ generatedLineups = committed
         /\ \A i \in innings :
              Cardinality(emptyPositions(committed, i)) >= 9 - Len(attending)

\* Eight attending players: the fallback lineup is committed after
\* maxAttempts null returns, with one '' in the first inning and more than
\* one in a later inning.
C26_Witness ==
  /\ hasReturned
  /\ outcome = "fallback"
  /\ attempts = maxAttempts
  /\ Len(attending) = 8
  /\ Cardinality(emptyPositions(committed, 0)) = 1
  /\ \E i \in innings : Cardinality(emptyPositions(committed, i)) > 1

\* ------------------------------------------------------------------ C27

\* C27: in every state reached by roster handlers and calls of
\* generateDefensiveLineups, calculatePlayerStats and validateLineup applied
\* to generatedLineups complete and return a result: every non-empty name
\* that is counted in a position row has a stats entry, also when the player
\* was removed from the roster after the lineup was generated.
C27_StatsForEveryName ==
  pc = "idle" =>
    /\ ~calculatePlayerStatsThrows(generatedLineups, roster, playerAttendance)
    /\ ~validateLineup(generatedLineups, roster, playerAttendance).threw

\* ------------------------------------------------------------------ C28

\* C28: after saveInitialState, hasStateChanged() returns true whenever some
\* player's capability list differs from what it was at the save, also for a
\* player who had a capability entry when the state was saved, and likewise
\* whenever a row of the generated lineups differs from the saved row.
C28_ChangeDetected ==
  (pc = "idle" /\ hasInitialState
     /\ (\/ playerCapabilities # saved.playerCapabilities
         \/ generatedLineups # saved.generatedLineups))
    => hasStateChanged

\* ------------------------------------------------------------------ C29

\* C29: immediately after any call of saveInitialState, hasStateChanged()
\* returns false, also when keys were removed from capabilities, attendance
\* or generated lineups since the previous save.
C29_UnchangedAfterSave ==
  (pc = "idle" /\ result.of = "saveInitialState") => ~hasStateChanged

\* ------------------------------------------------------------------ C30

\* The names handed to swapPlayersInInning: E is in no row, "" is an empty slot.
SwapNames == { "A", "B", "C", "D", "E", "" }

\* What the first two innings of the rows Pitcher, Catcher and 'Sitting 1'
\* show: A, B, C or '', a name at most once and '' at most once per inning.
SwapInnings ==
  { c \in [ 1..3 -> { "A", "B", "C", "" } ] : \A j, k \in 1..3 : c[j] = c[k] => j = k }

\* Lineups with three full rows and the one-entry row 'Sitting 2', as
\* generateSimpleLineups leaves it when a player sits in one inning only.
InitSwap ==
  \E first, second \in SwapInnings :
    InitFrom([ roster |-> << "A", "B", "C", "D" >>, capabilities |-> << >>,
               attendance |-> allAttending(<< "A", "B", "C", "D" >>) ],
             [ key \in { "Pitcher", "Catcher", SittingKey(1), SittingKey(2) } |->
                 IF key = SittingKey(2) THEN << "D" >>
                 ELSE LET k == IF key = "Pitcher" THEN 1 ELSE IF key = "Catcher" THEN 2 ELSE 3
                      IN << first[k], second[k] >> \o [ j \in 1..(INNING_COUNT - 2) |-> first[k] ] ],
             MaxCalls - 1)

\* swapPlayersInInning with a position that has a row or has none, an inning
\* inside or outside 0..INNING_COUNT - 1, and two of the names.
swapCall ==
  \E position \in { "Pitcher", "Shortstop" } : \E i \in { -1, 0, 1, INNING_COUNT } :
    \E player1, player2 \in SwapNames :
      swapPlayersInInning(position, i, player1, player2)

SpecSwap == InitSwap /\ [][swapCall]_vars

\* Some row shows the player in inning i.
appearsIn(g, i, player) ==
  \E key \in DOMAIN g : i + 1 \in DOMAIN g[key] /\ g[key][i + 1] = player

\* The entries of inning i that show the name.
slotsShowing(g, i, name) ==
  { key \in DOMAIN g : i + 1 \in DOMAIN g[key] /\ g[key][i + 1] = name }

\* What swapPlayersInInning(position, i, player1, player2) has to leave.
swapped(position, i, player1, player2) ==
  IF /\ position \in DOMAIN generatedLineups
     /\ i \in 0..(INNING_COUNT - 1)
     /\ appearsIn(generatedLineups, i, player1)
     /\ appearsIn(generatedLineups, i, player2)
  THEN /\ DOMAIN generatedLineups' = DOMAIN generatedLineups
       /\ \A key \in DOMAIN generatedLineups :
            /\ Len(generatedLineups'[key]) = Len(generatedLineups[key])
            /\ \A j \in DOMAIN generatedLineups[key] :
                 j # i + 1 => generatedLineups'[key][j] = generatedLineups[key][j]
       /\ \A name \in SwapNames :
            Cardinality(slotsShowing(generatedLineups', i, name))
              = Cardinality(slotsShowing(generatedLineups, i, name))
       /\ player1 # player2 =>
            \E row1 \in slotsShowing(generatedLineups, i, player1) :
              \E row2 \in slotsShowing(generatedLineups, i, player2) :
                /\ generatedLineups'[row1][i + 1] = player2
                /\ generatedLineups'[row2][i + 1] = player1
                /\ \A key \in DOMAIN generatedLineups \ { row1, row2 } :
                     i + 1 \in DOMAIN generatedLineups[key]
                       => generatedLineups'[key][i + 1] = generatedLineups[key][i + 1]
  ELSE generatedLineups' = generatedLineups

\* C30: swapPlayersInInning(position, inning, p1, p2) on a lineup in which
\* both players appear in that inning exchanges their two slots and changes
\* nothing else: the names of that inning are the same as before and every
\* other inning of every row is unchanged; when a player does not appear in
\* the inning, the position has no row or the inning is outside 0..5,
\* generatedLineups is left unchanged.
C30_SwapExchangesTwoSlots ==
  [][\A position \in { "Pitcher", "Shortstop" } : \A i \in { -1, 0, 1, INNING_COUNT } :
       \A player1, player2 \in SwapNames :
         swapPlayersInInning(position, i, player1, player2)
           => swapped(position, i, player1, player2)]_vars

\* A swap of A with the player D of the one-entry row has been made: D
\* pitches in the first inning and A is in the row 'Sitting 2'.
C30_Witness ==
  /\ result.of = "swapPlayersInInning"
  /\ result.player = "A"
  /\ urlUpdates # << >>
  /\ generatedLineups["Pitcher"] = << "D", "B", "A", "A", "A", "A" >>
  /\ generatedLineups[SittingKey(2)] = << "A" >>

====
